---- MODULE Spec2Model ----
(***************************************************************************)
(* Model of the multi-patch connectivity core of pyGeo (src/pyGeo.py):     *)
(* edge matching (_test_edge), connectivity inference and driving-group    *)
(* propagation (calcEdgeConnectivity), the per-patch edge/node flags       *)
(* (_setEdgeConnectivity), the connectivity table file (edge.__init__,     *)
(* edge.write_info, readEdgeConnectivity, writeEdgeConnectivity), knot     *)
(* propagation (propagateKnotVectors) and edge stitching (stitchEdges).    *)
(*                                                                         *)
(* Conventions.  Patch, edge, corner and list indices are 0-based as in    *)
(* the source; a Python list is a TLA+ sequence, so list[k] is seq[k+1].   *)
(* Coordinates are integers (twice the real coordinate, so that the        *)
(* midpoint of an edge is an integer point).  A distance test              *)
(* _e_dist(p,q) < tol is decided on the squares.                           *)
(***************************************************************************)
EXTENDS Integers, Sequences, FiniteSets, TLC

VARIABLES
  nPatch,       \* self.nPatch
  surfs,        \* geometry of self.surfs[p]: samples of the four boundary curves
  coef,         \* self.surfs[p].coef : the control-point grid of each patch
  tu, tv,       \* self.surfs[p].tu / .tv : the knot vectors of each patch
  con,          \* self.con : the connection table (a list of edge objects)
  conIsNone,    \* TRUE while self.con is None
  edge_con, master_edge, dir, edge_type,   \* per-patch edge flags
  master_node, node_con,                   \* per-patch corner flags
  files,        \* the connectivity files on disk: file name -> list of lines
  last,         \* what the last call was and how it ended
  arg, ret,     \* inputs and results of a directly called helper
  geoCoef,      \* self.coef : the array of solved coefficients ("None" before)
  ref_axis_surface_con,   \* the patch list of every reference axis set
  DV_listLocal  \* the surface_id of every local design variable added

vars == <<nPatch, surfs, coef, tu, tv, con, conIsNone, edge_con, master_edge,
          dir, edge_type, master_node, node_con, files, last, arg, ret,
          geoCoef, ref_axis_surface_con, DV_listLocal>>

\* what fitSurfaces, setRefAxis and addGeoDVLocal write
designVars == <<geoCoef, ref_axis_surface_con, DV_listLocal>>

(***************************************************************************)
(* Bounds of the model                                                     *)
(***************************************************************************)
MaxPatch == 3      \* at most this many patches in a geometry object
NCtl == 3          \* control points per direction of every patch
MaxCoord == 2      \* largest coordinate of a free sample point (_test_edge)

Patches == 0 .. (nPatch - 1)
Edges4 == 0 .. 3

(***************************************************************************)
(* Text: a string is a sequence of one-character strings.                  *)
(***************************************************************************)
DigitChars == <<"0", "1", "2", "3", "4", "5", "6", "7", "8", "9">>

Sp(n) == [k \in 1 .. n |-> " "]

RECURSIVE Digits(_)
\* str(n) for n >= 0
Digits(n) ==
  IF n < 10 THEN <<DigitChars[n + 1]>>
  ELSE Append(Digits(n \div 10), DigitChars[(n % 10) + 1])

\* str(n) of a Python int
Str(n) == IF n < 0 THEN <<"-">> \o Digits(-n) ELSE Digits(n)

\* '%3d' % n : right-justified in a field of at least three characters
Fmt3d(n) ==
  LET s == Str(n) IN IF Len(s) >= 3 THEN s ELSE Sp(3 - Len(s)) \o s

\* str.replace('|', ' ')
ReplaceBars(s) == [k \in 1 .. Len(s) |-> IF s[k] = "|" THEN " " ELSE s[k]]

IsSpace(c) == c \in {" ", "\n", "\t"}

\* string.split(s): the maximal runs of non-whitespace characters, in order
RECURSIVE SplitFrom(_, _)
SplitFrom(s, k) ==
  IF \A j \in k .. Len(s) : IsSpace(s[j]) THEN <<>>
  ELSE LET p == CHOOSE i \in k .. Len(s) :
                  ~IsSpace(s[i]) /\ \A j \in k .. (i - 1) : IsSpace(s[j])
           q == CHOOSE i \in (p + 1) .. (Len(s) + 1) :
                  /\ i = Len(s) + 1 \/ IsSpace(s[i])
                  /\ \A j \in p .. (i - 1) : ~IsSpace(s[j])
       IN <<SubSeq(s, p, q - 1)>> \o SplitFrom(s, q)

StringSplit(s) == SplitFrom(s, 1)

DigitVal(c) == CHOOSE d \in 0 .. 9 : DigitChars[d + 1] = c

IsDigit(c) == \E d \in 0 .. 9 : DigitChars[d + 1] = c

RECURSIVE DigitsVal(_, _, _)
DigitsVal(t, k, acc) ==
  IF k > Len(t) THEN acc ELSE DigitsVal(t, k + 1, 10 * acc + DigitVal(t[k]))

\* int(t) for a token t: [ok |-> FALSE] stands for ValueError
ParseInt(t) ==
  LET signed == Len(t) >= 1 /\ t[1] \in {"-", "+"}
      body == IF signed THEN SubSeq(t, 2, Len(t)) ELSE t
  IN IF body = <<>> \/ \E k \in 1 .. Len(body) : ~IsDigit(body[k])
     THEN [ok |-> FALSE, val |-> 0]
     ELSE [ok |-> TRUE,
           val |-> IF signed /\ t[1] = "-" THEN -DigitsVal(body, 1, 0)
                   ELSE DigitsVal(body, 1, 0)]

(***************************************************************************)
(* class edge                                                              *)
(***************************************************************************)
\* int(aux[k]) of lines 1796-1814
IntField(aux, k) == ParseInt(aux[k + 1]).val

\* int(aux[k]) raises IndexError or ValueError
BadField(aux, k) == Len(aux) <= k \/ ~ParseInt(aux[k + 1]).ok

\* lines 1796-1814 raise on the tokens aux
fields_raise(aux) ==
  IF BadField(aux, 3) \/ BadField(aux, 1) \/ BadField(aux, 2)
     \/ BadField(aux, 7) \/ BadField(aux, 8)
  THEN TRUE
  ELSE IF IntField(aux, 3) = 0 THEN BadField(aux, 4)
  ELSE BadField(aux, 5) \/ BadField(aux, 6) \/ BadField(aux, 9)
       \/ BadField(aux, 10)

\* edge(init_string) raises: IndexError on a row with too few fields,
\* ValueError on a field that int() cannot read
edge_raises(init_string) == fields_raise(StringSplit(init_string))

\* lines 1796-1814 on the tokens aux
edge_fields(aux) ==
  IF IntField(aux, 3) = 0
  THEN [type |-> IntField(aux, 3), f1 |-> IntField(aux, 1),
        e1 |-> IntField(aux, 2), dg |-> IntField(aux, 7),
        Nctl |-> IntField(aux, 8), dof |-> IntField(aux, 4),
        cont |-> -1, dir |-> 1, f2 |-> -1, e2 |-> -1]
  ELSE [type |-> IntField(aux, 3), f1 |-> IntField(aux, 1),
        e1 |-> IntField(aux, 2), dg |-> IntField(aux, 7),
        Nctl |-> IntField(aux, 8), dof |-> 7,
        cont |-> IntField(aux, 5), dir |-> IntField(aux, 6),
        f2 |-> IntField(aux, 9), e2 |-> IntField(aux, 10)]

\* the object built by edge(init_string) when it does not raise: the
\* fields of aux = string.split(init_string)
edge_init(init_string) ==
  CHOOSE e \in {edge_fields(aux) : aux \in {StringSplit(init_string)}} : TRUE

\* the format of edge.write_info and of calcEdgeConnectivity's init_string,
\* applied to its eleven values
FormatRow(v) ==
  Fmt3d(v[1]) \o Sp(8) \o <<"|">> \o Fmt3d(v[2]) \o Sp(5) \o Fmt3d(v[3])
  \o Sp(4) \o <<"|">> \o Fmt3d(v[4]) \o Sp(3) \o <<"|", " ">> \o Fmt3d(v[5])
  \o Sp(2) \o <<"|", " ", " ">> \o Fmt3d(v[6]) \o Sp(7) \o <<"|", " ">>
  \o Fmt3d(v[7]) \o Sp(2) \o <<"|", " ">> \o Fmt3d(v[8]) \o Sp(11)
  \o <<"|", " ">> \o Fmt3d(v[9]) \o Sp(2) \o <<"|", " ">> \o Fmt3d(v[10])
  \o Sp(5) \o Fmt3d(v[11]) \o Sp(6) \o <<"|", "\n">>

\* a faulty variant of write_info: the second face/edge pair is written edge first
write_info_swapped(e, i) ==
  FormatRow(<<i, e.f1, e.e1, e.type, e.dof, e.cont, e.dir, e.dg, e.Nctl,
              e.e2, e.f2>>)

\* edge.write_info(i, handle): the line written for record e as row i
write_info(e, i) ==
  FormatRow(<<i, e.f1, e.e1, e.type, e.dof, e.cont, e.dir, e.dg, e.Nctl,
              e.f2, e.e2>>)

(***************************************************************************)
(* Small helpers of pyGeo                                                  *)
(***************************************************************************)
\* the opposite edge of the same parametric family (None, here -1, otherwise)
_flipEdge(e) ==
  IF e = 0 THEN 1
  ELSE IF e = 1 THEN 0
  ELSE IF e = 2 THEN 3
  ELSE IF e = 3 THEN 2
  ELSE -1

\* a faulty variant of _getNodesFromEdge: edge 1 is given the corners of
\* edge 0
_getNodesFromEdge_edge1low(e) ==
  IF e = 0 THEN <<0, 1>>
  ELSE IF e = 1 THEN <<0, 1>>
  ELSE IF e = 2 THEN <<0, 2>>
  ELSE <<1, 3>>

\* the two corners of an edge, <<n1, n2>>
_getNodesFromEdge(e) ==
  IF e = 0 THEN <<0, 1>>
  ELSE IF e = 1 THEN <<2, 3>>
  ELSE IF e = 2 THEN <<0, 2>>
  ELSE <<1, 3>>

\* the square of _e_dist(x1, x2)
_e_dist_sq(x1, x2) ==
  (x1[1] - x2[1]) * (x1[1] - x2[1]) + (x1[2] - x2[2]) * (x1[2] - x2[2])
  + (x1[3] - x2[3]) * (x1[3] - x2[3])

\* self._e_dist(x1, x2) < edge_tol
DistLess(x1, x2, edge_tol) ==
  edge_tol > 0 /\ _e_dist_sq(x1, x2) < edge_tol * edge_tol

\* surf.getValueEdge(e, s) for s = s2/2 in {0, 0.5, 1}
getValueEdge(surf, e, s2) == surf[e][s2 + 1]

\* a faulty variant of _test_edge: the opposite-sense branch tests one end only
_test_edge_onesided(surf1, surf2, i, j, edge_tol) ==
  LET val1_beg == getValueEdge(surf1, i, 0)
      val1_end == getValueEdge(surf1, i, 2)
      val2_beg == getValueEdge(surf2, j, 0)
      val2_end == getValueEdge(surf2, j, 2)
      midOK == DistLess(getValueEdge(surf1, i, 1), getValueEdge(surf2, j, 1), edge_tol)
  IN IF DistLess(val1_beg, val2_beg, edge_tol) /\ DistLess(val1_end, val2_end, edge_tol)
     THEN <<midOK, 1>>
     ELSE IF DistLess(val1_beg, val2_end, edge_tol)
     THEN <<midOK, -1>>
     ELSE <<FALSE, 1>>

\* a faulty variant of _test_edge: the opposite sense is tested first
_test_edge_revfirst(surf1, surf2, i, j, edge_tol) ==
  LET val1_beg == getValueEdge(surf1, i, 0)
      val1_end == getValueEdge(surf1, i, 2)
      val2_beg == getValueEdge(surf2, j, 0)
      val2_end == getValueEdge(surf2, j, 2)
      midOK == DistLess(getValueEdge(surf1, i, 1), getValueEdge(surf2, j, 1), edge_tol)
  IN IF DistLess(val1_beg, val2_end, edge_tol) /\ DistLess(val1_end, val2_beg, edge_tol)
     THEN <<midOK, -1>>
     ELSE IF DistLess(val1_beg, val2_beg, edge_tol) /\ DistLess(val1_end, val2_end, edge_tol)
     THEN <<midOK, 1>>
     ELSE <<FALSE, 1>>

\* _test_edge: <<coinc, dir_flag>>
_test_edge(surf1, surf2, i, j, edge_tol) ==
  LET val1_beg == getValueEdge(surf1, i, 0)
      val1_end == getValueEdge(surf1, i, 2)
      val2_beg == getValueEdge(surf2, j, 0)
      val2_end == getValueEdge(surf2, j, 2)
      midOK == DistLess(getValueEdge(surf1, i, 1), getValueEdge(surf2, j, 1), edge_tol)
  IN IF DistLess(val1_beg, val2_beg, edge_tol) /\ DistLess(val1_end, val2_end, edge_tol)
     THEN <<midOK, 1>>
     ELSE IF DistLess(val1_beg, val2_end, edge_tol) /\ DistLess(val1_end, val2_beg, edge_tol)
     THEN <<midOK, -1>>
     ELSE <<FALSE, 1>>

(***************************************************************************)
(* calcEdgeConnectivity: the computation up to the connection table        *)
(***************************************************************************)
\* list.index(x): the 0-based position of the first occurrence of x
ListIndex(list, x) ==
  (CHOOSE k \in 1 .. Len(list) :
     list[k] = x /\ \A m \in 1 .. (k - 1) : list[m] # x) - 1

\* _getConIndex: <<index into edges, position of the edge in its record>>
_getConIndex(edges, edge, nJoined, nMirrored) ==
  LET i == ListIndex(edges, edge)
  IN IF i < nJoined THEN <<i \div 2, i % 2>>
     ELSE <<(nJoined \div 2) + i - nJoined, 0>>

\* one pass of the innermost loop body (lines 579-584) for the k-th
\* quadruple (ipatch, jpatch, i, j) of the four nested loops; jpatch starts
\* at ipatch + 1
ScanEntry(S, n, k, edge_tol) ==
  LET ipatch == k \div (16 * n)
      jpatch == (k \div 16) % n
      i == (k \div 4) % 4
      j == k % 4
  IN IF jpatch > ipatch
     THEN [t |-> _test_edge(S[ipatch], S[jpatch], i, j, edge_tol),
           e0 |-> <<ipatch, i>>, e1 |-> <<jpatch, j>>]
     ELSE [t |-> <<FALSE, 1>>, e0 |-> <<ipatch, i>>, e1 |-> <<jpatch, j>>]

\* e_con.append([[ipatch,i],[jpatch,j],cont_flag,dir_flag,-1]) for the
\* coincident ones among the tested pairs
AppendCoincident(tested) ==
  [k \in 1 .. Len(tested) |->
     [e0 |-> tested[k].e0, e1 |-> tested[k].e1, cont |-> 0,
      dir |-> tested[k].t[2], dg |-> -1, joined |-> TRUE]]

\* the pairwise scan (lines 570-588): e_con, in the order of the loops
ScanEdges(S, n, edge_tol) ==
  AppendCoincident(
    SelectSeq([k \in 1 .. (16 * n * n) |-> ScanEntry(S, n, k - 1, edge_tol)],
              LAMBDA r : r.t[1]))

\* edge_list after the loop of lines 596-599: both references of every
\* joined record, in order
JoinedList(e_con) ==
  [k \in 1 .. (2 * Len(e_con)) |->
     IF k % 2 = 1 THEN e_con[(k + 1) \div 2].e0 ELSE e_con[k \div 2].e1]

\* the edges [i,j] in the order of the loops of lines 602-603
AllEdges(n) == [k \in 1 .. (4 * n) |-> <<(k - 1) \div 4, (k - 1) % 4>>]

\* [[i,j],-1] for every free edge
MirrorRecords(free) ==
  [k \in 1 .. Len(free) |->
     [e0 |-> free[k], e1 |-> <<-1, -1>>, cont |-> -1, dir |-> 1,
      dg |-> -1, joined |-> FALSE]]

\* the edges not in edge_list
FreeEdges(joinedList, n) ==
  SelectSeq(AllEdges(n),
            LAMBDA fe : \A m \in 1 .. Len(joinedList) : joinedList[m] # fe)

\* mirrored_edges (lines 601-610): [[i,j],-1] for every edge not in edge_list
MirroredEdges(e_con, n) == MirrorRecords(FreeEdges(JoinedList(e_con), n))

\* edges[index][order]
EdgeRef(edges, index, order) ==
  IF order = 0 THEN edges[index + 1].e0 ELSE edges[index + 1].e1

RECURSIVE Walk(_, _, _, _, _, _, _, _)
\* the while loops of lines 651-678 and 690-711 (the two differ only in
\* the place of the statement that swaps order): from record index, side
\* order, step to the opposite edge of that patch and colour its record
\* until a coloured or a mirrored record is met.  dgs[k+1] is edges[k][-1].
Walk(edges, edge_list, dgs, index, order, nJoined, nMirror, dg_counter) ==
  LET cur == EdgeRef(edges, index, order)
      cur_face == cur[1]
      cur_edge == _flipEdge(cur[2])
      found == _getConIndex(edge_list, <<cur_face, cur_edge>>, nJoined, nMirror)
      new_index == found[1]
      new_order == IF found[2] = 0 THEN 1 ELSE 0
  IN IF dgs[new_index + 1] # -1 THEN dgs
     ELSE LET dgs2 == [dgs EXCEPT ![new_index + 1] = dg_counter]
          IN IF ~edges[new_index + 1].joined THEN dgs2
             ELSE Walk(edges, edge_list, dgs2, new_index, new_order,
                       nJoined, nMirror, dg_counter)

\* a faulty variant of the loop body: record i itself is left uncoloured
ColourFrom_noself(edges, edge_list, dgs, i, nJoined, nMirror, dg_counter) ==
  LET flip_edge == _flipEdge(edges[i + 1].e0[2])
      flip_index == _getConIndex(edge_list, <<edges[i + 1].e0[1], flip_edge>>,
                                 nJoined, nMirror)[1]
      dgs2 == [dgs EXCEPT ![flip_index + 1] = dg_counter]
      dgs3 == IF ~edges[i + 1].joined THEN dgs2
              ELSE Walk(edges, edge_list, dgs2, i, 1, nJoined, nMirror, dg_counter)
  IN IF ~edges[flip_index + 1].joined THEN dgs3
     ELSE Walk(edges, edge_list, dgs3, flip_index, 1, nJoined, nMirror, dg_counter)

\* the body of the for loop for an uncoloured record i (lines 626-712)
ColourFrom(edges, edge_list, dgs, i, nJoined, nMirror, dg_counter) ==
  LET dgs1 == [dgs EXCEPT ![i + 1] = dg_counter]
      flip_edge == _flipEdge(edges[i + 1].e0[2])
      flip_index == _getConIndex(edge_list, <<edges[i + 1].e0[1], flip_edge>>,
                                 nJoined, nMirror)[1]
      dgs2 == [dgs1 EXCEPT ![flip_index + 1] = dg_counter]
      dgs3 == IF ~edges[i + 1].joined THEN dgs2
              ELSE Walk(edges, edge_list, dgs2, i, 1, nJoined, nMirror, dg_counter)
  IN IF ~edges[flip_index + 1].joined THEN dgs3
     ELSE Walk(edges, edge_list, dgs3, flip_index, 1, nJoined, nMirror, dg_counter)

RECURSIVE ColourLoop(_, _, _, _, _, _, _)
\* for i in xrange(len(edges)) (lines 623-713): the driving groups
ColourLoop(edges, edge_list, dgs, i, nJoined, nMirror, dg_counter) ==
  IF i >= Len(edges) THEN dgs
  ELSE IF dgs[i + 1] = -1
       THEN ColourLoop(edges, edge_list,
                       ColourFrom(edges, edge_list, dgs, i, nJoined, nMirror,
                                  dg_counter + 1),
                       i + 1, nJoined, nMirror, dg_counter + 1)
       ELSE ColourLoop(edges, edge_list, dgs, i + 1, nJoined, nMirror, dg_counter)

RECURSIVE WalkStop_nobreak(_, _, _, _, _, _, _, _)
\* a faulty variant of the while loop: it does not stop at a record that
\* already has a group
WalkStop_nobreak(edges, edge_list, dgs, index, order, nJoined, nMirror, fuel) ==
  LET cur == EdgeRef(edges, index, order)
      target == <<cur[1], _flipEdge(cur[2])>>
  IN IF fuel = 0 THEN "endless"
     ELSE IF \A k \in 1 .. Len(edge_list) : edge_list[k] # target THEN "raise"
     ELSE LET found == _getConIndex(edge_list, target, nJoined, nMirror)
              new_index == found[1]
              new_order == IF found[2] = 0 THEN 1 ELSE 0
          IN IF ~edges[new_index + 1].joined THEN "mirror"
             ELSE WalkStop_nobreak(edges, edge_list,
                                   [dgs EXCEPT ![new_index + 1] = 0],
                                   new_index, new_order, nJoined, nMirror,
                                   fuel - 1)

RECURSIVE WalkStop(_, _, _, _, _, _, _, _)
\* how the while loop of Walk ends: "coloured" at the break on a record
\* that already has a group (lines 661, 696), "mirror" at cont2 = False
\* (lines 673, 704), "raise" when list.index finds no entry (line 930),
\* "endless" when the loop has made more passes than fuel, the number of
\* records that can be coloured
WalkStop(edges, edge_list, dgs, index, order, nJoined, nMirror, fuel) ==
  LET cur == EdgeRef(edges, index, order)
      target == <<cur[1], _flipEdge(cur[2])>>
  IN IF fuel = 0 THEN "endless"
     ELSE IF \A k \in 1 .. Len(edge_list) : edge_list[k] # target THEN "raise"
     ELSE LET found == _getConIndex(edge_list, target, nJoined, nMirror)
              new_index == found[1]
              new_order == IF found[2] = 0 THEN 1 ELSE 0
          IN IF dgs[new_index + 1] # -1 THEN "coloured"
             ELSE IF ~edges[new_index + 1].joined THEN "mirror"
             ELSE WalkStop(edges, edge_list,
                           [dgs EXCEPT ![new_index + 1] = 0],
                           new_index, new_order, nJoined, nMirror, fuel - 1)

\* a walk that did not come to its end
BadStop(s) == s \in {"raise", "endless"}

\* the two while loops started from the uncoloured record i: the position
\* order of the opposite edge in its record (line 639), and how the walk
\* from record i (first) and the walk from the record of the opposite
\* edge (second) end; "none" when the record is a mirror record and no
\* walk is made, or when the call has ended before
StopsFrom(edges, edge_list, dgs, i, nJoined, nMirror, dg_counter) ==
  LET dgs1 == [dgs EXCEPT ![i + 1] = dg_counter]
      flip_edge == _flipEdge(edges[i + 1].e0[2])
      found == _getConIndex(edge_list, <<edges[i + 1].e0[1], flip_edge>>,
                            nJoined, nMirror)
      flip_index == found[1]
      dgs2 == [dgs1 EXCEPT ![flip_index + 1] = dg_counter]
      first == IF ~edges[i + 1].joined THEN "none"
               ELSE WalkStop(edges, edge_list, dgs2, i, 1, nJoined, nMirror,
                             Len(edges) + 1)
  IN [i |-> i, flip_index |-> flip_index, order |-> found[2],
      first |-> first,
      second |->
        IF BadStop(first) \/ ~edges[flip_index + 1].joined THEN "none"
        ELSE WalkStop(edges, edge_list,
                      IF ~edges[i + 1].joined THEN dgs2
                      ELSE Walk(edges, edge_list, dgs2, i, 1, nJoined,
                                nMirror, dg_counter),
                      flip_index, 1, nJoined, nMirror, Len(edges) + 1)]

RECURSIVE StopsLoop(_, _, _, _, _, _, _)
\* the for loop of lines 623-713 as ColourLoop makes it: the walks of
\* every record found uncoloured, up to the first walk that does not end
StopsLoop(edges, edge_list, dgs, i, nJoined, nMirror, dg_counter) ==
  IF i >= Len(edges) THEN <<>>
  ELSE IF dgs[i + 1] = -1
       THEN \* the walks of record i, then those of the later records
            LET w == StopsFrom(edges, edge_list, dgs, i, nJoined, nMirror,
                               dg_counter + 1)
            IN IF BadStop(w.first) \/ BadStop(w.second) THEN <<w>>
               ELSE <<w>> \o
                    StopsLoop(edges, edge_list,
                              ColourFrom(edges, edge_list, dgs, i, nJoined,
                                         nMirror, dg_counter + 1),
                              i + 1, nJoined, nMirror, dg_counter + 1)
       ELSE StopsLoop(edges, edge_list, dgs, i + 1, nJoined, nMirror,
                      dg_counter)

\* the walks made on e_con and mirrored_edges, set up as in JoinLists
JoinWalks(e_con, mirrored_edges) ==
  StopsLoop(e_con \o mirrored_edges,
            JoinedList(e_con)
              \o [k \in 1 .. Len(mirrored_edges) |-> mirrored_edges[k].e0],
            [k \in 1 .. (Len(e_con) + Len(mirrored_edges)) |-> -1], 0,
            Len(e_con) * 2, Len(mirrored_edges), -1)

\* the walks made on the result e_con of the scan
GroupWalks(e_con, n) == JoinWalks(e_con, MirroredEdges(e_con, n))

\* the walks of lines 623-713 for the patches S
CalcWalks(S, n, edge_tol) == GroupWalks(ScanEdges(S, n, edge_tol), n)

\* how the loops of lines 623-713 leave the call: "ok", or the way the
\* first walk that does not come to its end leaves it
WalksStatus(walks) ==
  IF \E k \in 1 .. Len(walks) : walks[k].first = "raise" \/ walks[k].second = "raise"
  THEN "raise"
  ELSE IF \E k \in 1 .. Len(walks) :
            walks[k].first = "endless" \/ walks[k].second = "endless"
       THEN "hang"
       ELSE "ok"

Nctl_default == 10    \* the Nctl written into every computed record
dof_joined == 7       \* the dof written into a computed joined record
dof_mirror == 3       \* the dof written into a computed mirror record

\* edges[k][-1] = dgs[k] for every record
WithGroups(edges, dgs) ==
  [k \in 1 .. Len(edges) |-> [edges[k] EXCEPT !.dg = dgs[k]]]

\* lines 621-713: the records with their driving groups
Coloured(edges, edge_list, nJoined, nMirror) ==
  WithGroups(edges,
             ColourLoop(edges, edge_list, [k \in 1 .. Len(edges) |-> -1], 0,
                        nJoined, nMirror, -1))

\* lines 617-620: edge_list = both references of every joined record, then
\* the mirrored edges; edges = e_con + mirrored_edges
JoinLists(e_con, mirrored_edges) ==
  Coloured(e_con \o mirrored_edges,
           JoinedList(e_con)
             \o [k \in 1 .. Len(mirrored_edges) |-> mirrored_edges[k].e0],
           Len(e_con) * 2, Len(mirrored_edges))

\* lines 596-713 on the result e_con of the scan
GroupEdges(e_con, n) == JoinLists(e_con, MirroredEdges(e_con, n))

\* edges with their driving groups (lines 570-713)
CalcEdges(S, n, edge_tol) == GroupEdges(ScanEdges(S, n, edge_tol), n)

\* init_string of lines 717-723 for record r, the i-th of edges; the joined
\* records are the first nJoined/2 ones
init_string(r, i) ==
  IF r.joined
  THEN FormatRow(<<i, r.e0[1], r.e0[2], 1, dof_joined, r.cont, r.dir, r.dg,
                   Nctl_default, r.e1[1], r.e1[2]>>)
  ELSE FormatRow(<<i, r.e0[1], r.e0[2], 0, dof_mirror, -1, 1, r.dg,
                   Nctl_default, -1, -1>>)

RECURSIVE BuildCon(_, _, _)
\* the loop of lines 715-727 from record i on: every record is formatted
\* into a table row and read back by the edge constructor
BuildCon(edges, i, table) ==
  IF i >= Len(edges) THEN table
  ELSE BuildCon(edges, i + 1,
                Append(table,
                       edge_init(ReplaceBars(init_string(edges[i + 1], i)))))

\* self.con after lines 570-727
CalcCon(S, n, edge_tol) == BuildCon(CalcEdges(S, n, edge_tol), 0, <<>>)

(***************************************************************************)
(* Geometry of the input patches.  A patch is a unit square (side 2 in     *)
(* the doubled coordinates) with a corner on a point of a planar lattice,  *)
(* lying in the plane or standing upright on it; a is the                  *)
(* direction of u (edges 0 and 1 run along it, from corner 0 to corner 1   *)
(* and from corner 2 to corner 3), b the direction of v (edges 2 and 3).   *)
(* Two patches may lie on the same cell.                                   *)
(***************************************************************************)
VAdd(p, q) == <<p[1] + q[1], p[2] + q[2], p[3] + q[3]>>
VScale(k, p) == <<k * p[1], k * p[2], k * p[3]>>
NegPart(p) == <<IF p[1] < 0 THEN -p[1] ELSE 0, IF p[2] < 0 THEN -p[2] ELSE 0,
                IF p[3] < 0 THEN -p[3] ELSE 0>>

\* the lattice cells a patch other than patch 0 may lie on
Slots == {<<0, 0>>, <<1, 0>>, <<2, 0>>, <<1, 1>>}

\* the orientations <<a, b>> a patch may have: Orient_I is that of patch 0,
\* Orient_R runs u the other way, Orient_U stands upright on its edge 2
\* (u runs along z, v along y)
Orient_I == <<<<0, 1, 0>>, <<1, 0, 0>>>>
Orient_R == <<<<0, -1, 0>>, <<1, 0, 0>>>>
Orient_U == <<<<0, 0, 1>>, <<0, 1, 0>>>>
Orients == {Orient_I, Orient_R, Orient_U}

\* the samples getValueEdge(e, s), s = 0, 0.5, 1, of the patch on cell slot
\* with orientation ab
PatchGeom(slot, ab) ==
  LET a == ab[1]
      b == ab[2]
      o == VAdd(<<2 * slot[1], 2 * slot[2], 0>>,
                VAdd(VScale(2, NegPart(a)), VScale(2, NegPart(b))))
      along(start, d) == <<start, VAdd(start, d), VAdd(start, VScale(2, d))>>
  IN [e \in Edges4 |->
        IF e = 0 THEN along(o, a)
        ELSE IF e = 1 THEN along(VAdd(o, VScale(2, b)), a)
        ELSE IF e = 2 THEN along(o, b)
        ELSE along(VAdd(o, VScale(2, a)), b)]

Placements == {PatchGeom(slot, ab) : slot \in Slots, ab \in Orients}

\* the geometries of n patches: patch 0 on cell <<0, 0>>, the others anywhere
Scenes(n) ==
  {S \in [0 .. (n - 1) -> Placements \cup {PatchGeom(<<0, 0>>, Orient_I)}] :
     /\ S[0] = PatchGeom(<<0, 0>>, Orient_I)
     /\ \A p \in 1 .. (n - 1) : S[p] \in Placements}

(***************************************************************************)
(* _setEdgeConnectivity.  The flags of all patches are one record          *)
(*   [edge_con, master_edge, dir, edge_type, master_node, node_con, st];   *)
(* st is "ok", "raise" (a Python exception left the call at that point)    *)
(* or "hang" (a while loop that never ends).  master_node holds "None",    *)
(* "True" or "False".  A node_con list holds its elements as sequences:    *)
(* the int k is <<k>> and the list [a,b] is <<a,b>>, so that the slave     *)
(* reference [f,n] is << <<f>>, <<n>> >> and a master's list of slaves     *)
(* [[f,n],...] is << <<f,n>>, ... >>.                                       *)
(***************************************************************************)
\* Python list indexing: k is a valid index of a list of length n
PyOK(k, n) == k >= -n /\ k < n
\* the position a valid index k denotes
Py(k, n) == IF k < 0 THEN k + n ELSE k

Flags ==
  [edge_con |-> edge_con, master_edge |-> master_edge, dir |-> dir,
   edge_type |-> edge_type, master_node |-> master_node,
   node_con |-> node_con, st |-> "ok"]

\* the flags of freshly built patches
FreshFlags(n) ==
  [edge_con |-> [p \in 0 .. (n - 1) |-> [e \in Edges4 |-> <<>>]],
   master_edge |-> [p \in 0 .. (n - 1) |-> [e \in Edges4 |-> TRUE]],
   dir |-> [p \in 0 .. (n - 1) |-> [e \in Edges4 |-> 1]],
   edge_type |-> [p \in 0 .. (n - 1) |-> [e \in Edges4 |-> 0]],
   master_node |-> [p \in 0 .. (n - 1) |-> [e \in Edges4 |-> "None"]],
   node_con |-> [p \in 0 .. (n - 1) |-> [e \in Edges4 |-> <<>>]],
   st |-> "ok"]

\* lines 748-758 for one record c
SetEdgeInfo(F, c, n) ==
  IF ~(PyOK(c.f1, n) /\ PyOK(c.e1, 4)) THEN [F EXCEPT !.st = "raise"]
  ELSE
    LET f1 == Py(c.f1, n)
        e1 == Py(c.e1, 4)
        F1 == [F EXCEPT !.edge_con[f1][e1] = <<c.f2, c.e2>>,
                        !.master_edge[f1][e1] = TRUE,
                        !.dir[f1][e1] = c.dir,
                        !.edge_type[f1][e1] = c.type]
    IN IF c.type # 1 THEN F1
       ELSE IF ~(PyOK(c.f2, n) /\ PyOK(c.e2, 4)) THEN [F1 EXCEPT !.st = "raise"]
       ELSE LET f2 == Py(c.f2, n)
                e2 == Py(c.e2, 4)
            IN [F1 EXCEPT !.edge_con[f2][e2] = <<c.f1, c.e1>>,
                          !.master_edge[f2][e2] = FALSE,
                          !.dir[f2][e2] = c.dir,
                          !.edge_type[f2][e2] = c.type]

RECURSIVE SetEdgeLoop(_, _, _, _)
\* for i in xrange(len(self.con)) of lines 746-760
SetEdgeLoop(F, table, k, n) ==
  IF k > Len(table) \/ F.st # "ok" THEN F
  ELSE SetEdgeLoop(SetEdgeInfo(F, table[k], n), table, k + 1, n)

RECURSIVE ResolveLoop(_, _, _, _, _)
\* the while loops of lines 812-824 and 836-849: cur_face and cur_node are
\* list elements; the result is the reference found, or how the loop ends
ResolveLoop(nc, cur_face, cur_node, seen, n) ==
  IF Len(cur_face) # 1 \/ Len(cur_node) # 1 THEN [st |-> "raise", ref |-> <<>>]
  ELSE IF ~(PyOK(cur_face[1], n) /\ PyOK(cur_node[1], 4))
  THEN [st |-> "raise", ref |-> <<>>]
  ELSE
    LET here == nc[Py(cur_face[1], n)][Py(cur_node[1], 4)]
    IN IF here = <<>> THEN [st |-> "ok", ref |-> <<cur_face, cur_node>>]
       ELSE LET next_face == here[1]
            IN IF Len(next_face) # 1 THEN [st |-> "raise", ref |-> <<>>]
               ELSE IF ~PyOK(next_face[1], n) THEN [st |-> "raise", ref |-> <<>>]
               ELSE LET there == nc[Py(next_face[1], n)][Py(cur_node[1], 4)]
                    IN IF Len(there) < 2 THEN [st |-> "raise", ref |-> <<>>]
                       ELSE IF <<next_face, there[2]>> \in seen
                       THEN [st |-> "hang", ref |-> <<>>]
                       ELSE ResolveLoop(nc, next_face, there[2],
                                        seen \cup {<<next_face, there[2]>>}, n)

\* lines 803-825 and 828-850: the reference to store for a slave corner
\* whose partner is corner n_master of patch f1
ResolveNode(nc, f1, n_master, n) ==
  LET own == nc[Py(f1, n)][n_master]
  IN IF own = <<>> THEN [st |-> "ok", ref |-> <<<<f1>>, <<n_master>>>>]
     ELSE IF Len(own) < 2 THEN [st |-> "raise", ref |-> <<>>]
     ELSE ResolveLoop(nc, own[1], own[2], {<<own[1], own[2]>>}, n)

\* lines 766-851 for one record c
SetNodeInfo(F, c, n) ==
  LET f1 == Py(c.f1, n)
      m == _getNodesFromEdge(c.e1)
      n1_master == IF c.dir = 1 THEN m[1] ELSE m[2]
      n2_master == IF c.dir = 1 THEN m[2] ELSE m[1]
      F1 == [F EXCEPT !.master_node[f1][m[1]] =
                        IF @ = "None" THEN "True" ELSE @]
      F2 == [F1 EXCEPT !.master_node[f1][m[2]] =
                        IF @ = "None" THEN "True" ELSE @]
  IN IF c.type # 1 THEN F2
     ELSE
       LET f2 == Py(c.f2, n)
           s == _getNodesFromEdge(c.e2)
           F3 == [F2 EXCEPT !.master_node[f2][s[1]] = "False"]
           F4 == [F3 EXCEPT !.master_node[f2][s[2]] = "False"]
           r1 == ResolveNode(F4.node_con, c.f1, n1_master, n)
       IN IF r1.st # "ok" THEN [F4 EXCEPT !.st = r1.st]
          ELSE LET F5 == [F4 EXCEPT !.node_con[f2][s[1]] = r1.ref]
                   r2 == ResolveNode(F5.node_con, c.f1, n2_master, n)
               IN IF r2.st # "ok" THEN [F5 EXCEPT !.st = r2.st]
                  ELSE [F5 EXCEPT !.node_con[f2][s[2]] = r2.ref]

RECURSIVE SetNodeLoop(_, _, _, _)
\* for i in xrange(len(self.con)) of lines 763-852
SetNodeLoop(F, table, k, n) ==
  IF k > Len(table) \/ F.st # "ok" THEN F
  ELSE SetNodeLoop(SetNodeInfo(F, table[k], n), table, k + 1, n)

\* the corners in the order of the loops over jpatch and k
AllCorners(n) == [i \in 1 .. (4 * n) |-> <<(i - 1) \div 4, (i - 1) % 4>>]

\* lines 857-871: every corner without a reference collects the corners
\* that reference it
BackPropagate(F, n) ==
  LET nc == F.node_con
      slavesOf(p, j) ==
        SelectSeq(AllCorners(n),
                  LAMBDA c : nc[c[1]][c[2]] = <<<<p>>, <<j>>>>)
  IN [F EXCEPT !.node_con =
        [p \in 0 .. (n - 1) |->
           [j \in Edges4 |-> IF nc[p][j] = <<>> THEN slavesOf(p, j) ELSE nc[p][j]]]]

\* _setEdgeConnectivity on connection table `table` (self.con is set)
_setEdgeConnectivity(F, table, n) ==
  LET Fa == SetEdgeLoop(F, table, 1, n)
      Fb == IF Fa.st # "ok" THEN Fa ELSE SetNodeLoop(Fa, table, 1, n)
  IN IF Fb.st # "ok" THEN Fb ELSE BackPropagate(Fb, n)

(***************************************************************************)
(* stitchEdges.  coef[p] is the control-point grid of patch p, indexed by  *)
(* <<i, j>> (i along u, j along v).  getCoefEdge / setCoefEdge are the     *)
(* patch's boundaryControlSequence / setBoundaryControlSequence: edge 0    *)
(* is coef[:,0], edge 1 coef[:,-1], edge 2 coef[0,:], edge 3 coef[-1,:],   *)
(* each from its first corner (_getNodesFromEdge) to its second.           *)
(***************************************************************************)
CtlIdx == 0 .. (NCtl - 1)

EdgePoint(e, k) ==
  IF e = 0 THEN <<k, 0>>
  ELSE IF e = 1 THEN <<k, NCtl - 1>>
  ELSE IF e = 2 THEN <<0, k>>
  ELSE <<NCtl - 1, k>>

getCoefEdge(C, e) == [k \in 1 .. NCtl |-> C[EdgePoint(e, k - 1)]]

setCoefEdge(C, e, seq) ==
  [ij \in DOMAIN C |->
     IF \E k \in 1 .. NCtl : EdgePoint(e, k - 1) = ij
     THEN seq[(CHOOSE k \in 1 .. NCtl : EdgePoint(e, k - 1) = ij)]
     ELSE C[ij]]

\* coef[::-1]
Reverse(seq) == [k \in 1 .. Len(seq) |-> seq[Len(seq) + 1 - k]]

\* a faulty variant of the loop body: the whole patch of the second
\* reference is overwritten by the control points of the first one
StitchOne_whole(C, c, n) ==
  IF c.type # 1 THEN C
  ELSE [C EXCEPT ![Py(c.f2, n)] = C[Py(c.f1, n)]]

\* lines 1021-1032 for one record c
StitchOne(C, c, n) ==
  IF c.type # 1 THEN C
  ELSE LET edgeCoef == getCoefEdge(C[Py(c.f1, n)], c.e1)
           sent == IF c.dir = -1 THEN Reverse(edgeCoef) ELSE edgeCoef
       IN [C EXCEPT ![Py(c.f2, n)] = setCoefEdge(@, c.e2, sent)]

RECURSIVE StitchLoop(_, _, _, _)
StitchLoop(C, table, k, n) ==
  IF k > Len(table) THEN C
  ELSE StitchLoop(StitchOne(C, table[k], n), table, k + 1, n)

\* stitchEdges: the control points after the loop over self.con
stitchEdges(C, table, n) == StitchLoop(C, table, 1, n)

(***************************************************************************)
(* propagateKnotVectors                                                    *)
(***************************************************************************)
RECURSIVE GroupLoop(_, _, _, _)
\* lines 945-950: the buckets dg (a list of lists of records); Python's
\* dg[k] takes a negative k from the end and raises IndexError outside
GroupLoop(table, k, dg, dg_counter) ==
  IF k > Len(table) THEN [st |-> "ok", dg |-> dg]
  ELSE LET c == table[k]
       IN IF c.dg > dg_counter
          THEN GroupLoop(table, k + 1, Append(dg, <<c>>), dg_counter + 1)
          ELSE IF ~PyOK(c.dg, Len(dg)) THEN [st |-> "raise", dg |-> dg]
          ELSE GroupLoop(table, k + 1,
                         [dg EXCEPT ![Py(c.dg, Len(dg)) + 1] = Append(@, c)],
                         dg_counter)

\* lines 967-984: the knot vector knot_vec is given to both sides of record c
SetKnots(K, c, knot_vec, n) ==
  LET K1 == IF c.e1 = 0 \/ c.e1 = 1
            THEN [K EXCEPT !.tu[Py(c.f1, n)] = knot_vec]
            ELSE [K EXCEPT !.tv[Py(c.f1, n)] = knot_vec]
  IN IF c.type # 1 THEN K1
     ELSE IF c.e2 = 0 \/ c.e2 = 1
          THEN [K1 EXCEPT !.tu[Py(c.f2, n)] = knot_vec]
          ELSE [K1 EXCEPT !.tv[Py(c.f2, n)] = knot_vec]

RECURSIVE BucketLoop(_, _, _, _, _)
BucketLoop(K, bucket, j, knot_vec, n) ==
  IF j > Len(bucket) THEN K
  ELSE BucketLoop(SetKnots(K, bucket[j], knot_vec, n), bucket, j + 1, knot_vec, n)

\* lines 955-986 for one bucket
KnotsOfGroup(K, bucket, n) ==
  LET first_edge == bucket[1]
      knot_vec == IF first_edge.e1 = 0 \/ first_edge.e1 = 1
                  THEN K.tu[Py(first_edge.f1, n)]
                  ELSE K.tv[Py(first_edge.f1, n)]
  IN BucketLoop(K, bucket, 1, knot_vec, n)

RECURSIVE KnotLoop(_, _, _, _)
KnotLoop(K, dg, i, n) ==
  IF i > Len(dg) THEN K ELSE KnotLoop(KnotsOfGroup(K, dg[i], n), dg, i + 1, n)

\* propagateKnotVectors on K = [tu, tv]: the knot vectors after the call
propagateKnotVectors(K, table, n) ==
  LET g == GroupLoop(table, 1, <<>>, -1)
  IN IF g.st # "ok" THEN [tu |-> K.tu, tv |-> K.tv, st |-> "raise"]
     ELSE LET K2 == KnotLoop(K, g.dg, 1, n)
          IN [tu |-> K2.tu, tv |-> K2.tv, st |-> "ok"]

(***************************************************************************)
(* The connectivity file: a file is the list of its lines.                 *)
(***************************************************************************)
\* the header line written by writeEdgeConnectivity (line 892)
HeaderLine ==
  <<"C", "o", "n", "n", "e", "c", "t", "i", "o", "n", " ", "|", " ", "F",
    "a", "c", "e", " ", " ", " ", " ", "E", "d", "g", "e", " ", " ", "|",
    " ", "T", "y", "p", "e", " ", "|", " ", "d", "o", "f", " ", " ", "|",
    " ", "C", "o", "n", "t", "i", "n", "u", "t", "i", "y", " ", "|", " ",
    "D", "i", "r", "?", " ", "|", " ", "D", "r", "i", "v", "i", "n", "g",
    " ", "G", "r", "o", "u", "p", " ", "|", " ", "N", "c", "t", "l", " ",
    "|", " ", "F", "a", "c", "e", " ", " ", " ", " ", "E", "d", "g", "e",
    " ", " ", " ", " ", " ", "|", "\n">>

\* the lines writeEdgeConnectivity writes for self.con = table
writeEdgeConnectivity(table) ==
  <<HeaderLine>> \o [k \in 1 .. Len(table) |-> write_info(table[k], k - 1)]

RECURSIVE ReadLoop(_, _, _)
\* for i in range(1,len(file)): self.con.append(edge(file[i])), where file
\* holds the lines with the bars replaced (lines 912-921); the records
\* appended so far stay in self.con when the constructor raises
ReadLoop(lines, i, table) ==
  IF i >= Len(lines) THEN [st |-> "ok", con |-> table]
  ELSE IF edge_raises(ReplaceBars(lines[i + 1]))
  THEN [st |-> "raise", con |-> table]
  ELSE ReadLoop(lines, i + 1,
                Append(table, edge_init(ReplaceBars(lines[i + 1]))))

\* self.con after lines 910-921 of readEdgeConnectivity on a file
ReadCon(lines) == ReadLoop(lines, 1, <<>>)

(***************************************************************************)
(* The geometry object                                                     *)
(***************************************************************************)
\* the control points of independently fitted patches: all different
FreshCoef(n) ==
  [p \in 0 .. (n - 1) |-> [ij \in CtlIdx \X CtlIdx |-> <<p, ij[1], ij[2]>>]]
\* the knot vectors of independently fitted patches: all different
FreshTu(n) == [p \in 0 .. (n - 1) |-> <<p, "u">>]
FreshTv(n) == [p \in 0 .. (n - 1) |-> <<p, "v">>]

\* the replies raw_input() may return
Replies == {"0", "1", ""}
\* the edge tolerances calcEdgeConnectivity is called with
EdgeTols == {1}

Done == last.st \in {"raise", "hang"}

SetFlags(F) ==
  /\ edge_con' = F.edge_con
  /\ master_edge' = F.master_edge
  /\ dir' = F.dir
  /\ edge_type' = F.edge_type
  /\ master_node' = F.master_node
  /\ node_con' = F.node_con

flagVars == <<edge_con, master_edge, dir, edge_type, master_node, node_con>>

\* pyGeo.__init__ without a con_file: n patches, no connectivity
NewGeo(n, S) ==
  /\ nPatch = n
  /\ surfs = S
  /\ coef = FreshCoef(n)
  /\ tu = FreshTu(n)
  /\ tv = FreshTv(n)
  /\ con = <<>>
  /\ conIsNone = TRUE
  /\ edge_con = FreshFlags(n).edge_con
  /\ master_edge = FreshFlags(n).master_edge
  /\ dir = FreshFlags(n).dir
  /\ edge_type = FreshFlags(n).edge_type
  /\ master_node = FreshFlags(n).master_node
  /\ node_con = FreshFlags(n).node_con
  /\ last = [op |-> "init", st |-> "ok", ans |-> "none"]
  /\ geoCoef = "None"
  /\ ref_axis_surface_con = <<>>
  /\ DV_listLocal = <<>>

Init ==
  /\ \E n \in 1 .. MaxPatch : \E S \in Scenes(n) : NewGeo(n, S)
  /\ files = <<>>
  /\ arg = <<>>
  /\ ret = <<>>

\* calcEdgeConnectivity(edge_tol=edge_tol); ans is the reply to the prompt
\* shown when a table is already set
calcEdgeConnectivity(edge_tol, ans) ==
  /\ ~Done
  /\ IF conIsNone THEN ans = "none" ELSE ans \in Replies
  /\ IF ~conIsNone /\ ans = "0"
     THEN /\ last' = [op |-> "calc", st |-> "quit", ans |-> ans]
          /\ UNCHANGED <<con, conIsNone, flagVars>>
     ELSE \E walks \in {CalcWalks(surfs, nPatch, edge_tol)} :
          IF WalksStatus(walks) # "ok"
          THEN /\ last' = [op |-> "calc", st |-> WalksStatus(walks),
                           ans |-> ans, walks |-> walks]
               /\ UNCHANGED <<con, conIsNone, flagVars>>
          ELSE \E table \in {CalcCon(surfs, nPatch, edge_tol)} :
               \E F \in {_setEdgeConnectivity(Flags, table, nPatch)} :
                 /\ con' = table
                 /\ conIsNone' = FALSE
                 /\ SetFlags(F)
                 /\ last' = [op |-> "calc", st |-> F.st, ans |-> ans,
                             walks |-> walks]
  /\ UNCHANGED <<nPatch, surfs, coef, tu, tv, files, arg, ret, designVars>>

\* stitchEdges(); len(None) raises when no table is set
StitchEdges ==
  /\ ~Done
  /\ IF conIsNone
     THEN /\ last' = [op |-> "stitch", st |-> "raise", ans |-> "none"]
          /\ UNCHANGED coef
     ELSE /\ coef' = stitchEdges(coef, con, nPatch)
          /\ last' = [op |-> "stitch", st |-> "ok", ans |-> "none"]
  /\ UNCHANGED <<nPatch, surfs, tu, tv, con, conIsNone, flagVars, files, arg, ret, designVars>>

\* propagateKnotVectors()
PropagateKnotVectors ==
  /\ ~Done
  /\ IF conIsNone
     THEN /\ last' = [op |-> "knots", st |-> "raise", ans |-> "none"]
          /\ UNCHANGED <<tu, tv>>
     ELSE \E K \in {propagateKnotVectors([tu |-> tu, tv |-> tv], con, nPatch)} :
            /\ tu' = K.tu
            /\ tv' = K.tv
            /\ last' = [op |-> "knots", st |-> K.st, ans |-> "none"]
  /\ UNCHANGED <<nPatch, surfs, coef, con, conIsNone, flagVars, files, arg, ret, designVars>>

Next ==
  \/ \E edge_tol \in EdgeTols, ans \in Replies \cup {"none"} :
       calcEdgeConnectivity(edge_tol, ans)
  \/ StitchEdges
  \/ PropagateKnotVectors

Spec == Init /\ [][Next]_vars

(***************************************************************************)
(* A geometry object used with connectivity files.  The patches form a     *)
(* chain (patch p on cell <<p, 0>>); the file geo.con was written by hand  *)
(* in the format of writeEdgeConnectivity.  Reading never consults the     *)
(* geometry.                                                               *)
(***************************************************************************)
LoadPatches == 2   \* patches of the object that reads connectivity files
MaxRows == 2       \* at most this many rows in a hand-written file

LoadScene == [p \in 0 .. (LoadPatches - 1) |-> PatchGeom(<<p, 0>>, Orient_I)]

\* the rows a hand-written file is made of, as the eleven values
\* <<connection, f1, e1, type, dof, cont, dir, dg, Nctl, f2, e2>>
RowPool ==
  { <<0, 0, 0, 1, 7, 0, 1, 0, 10, 1, 0>>,
    <<1, 1, 2, 1, 7, 0, 1, 1, 10, 0, 1>>,
    <<0, 0, 2, 1, 7, 1, -1, 1, 4, 1, 2>>,
    <<0, 0, 0, 0, 3, -1, 1, 1, 10, -1, -1>>,
    <<12, 1, 0, 0, 123, -1, 1, 1, 1234, -1, -1>> }

\* three STITCH rows that name the two patches in both orders
CycleRows ==
  << <<0, 0, 2, 1, 7, 1, -1, 1, 4, 1, 2>>,
     <<1, 1, 2, 1, 7, 0, 1, 1, 10, 0, 1>>,
     <<2, 0, 2, 1, 7, 0, -1, 1, 10, 1, 0>> >>

\* the hand-written files: a header line and up to MaxRows rows of the
\* pool, or the rows of CycleRows
HandFiles ==
  {<<HeaderLine>> \o [k \in 1 .. Len(T) |-> FormatRow(T[k])] :
     T \in UNION {[1 .. m -> RowPool] : m \in 0 .. MaxRows} \cup {CycleRows}}

FileNames == {"geo.con", "out.con"}

InitLoad ==
  /\ NewGeo(LoadPatches, LoadScene)
  /\ \E lines \in HandFiles : files = [name \in {"geo.con"} |-> lines]
  /\ arg = <<>>
  /\ ret = <<>>

\* readEdgeConnectivity(file_name); ans is the reply to the prompt shown
\* when a table is already set.  self.con = [] precedes open(), which
\* raises IOError when the file does not exist.
readEdgeConnectivity(file_name, ans) ==
  /\ ~Done
  /\ IF conIsNone THEN ans = "none" ELSE ans \in Replies
  /\ IF ~conIsNone /\ ans = "0"
     THEN /\ last' = [op |-> "read", st |-> "quit", ans |-> ans]
          /\ UNCHANGED <<con, conIsNone, flagVars>>
     ELSE /\ conIsNone' = FALSE
          /\ IF file_name \notin DOMAIN files
             THEN /\ con' = <<>>
                  /\ last' = [op |-> "read", st |-> "raise", ans |-> ans]
                  /\ UNCHANGED flagVars
             ELSE \E R \in {ReadCon(files[file_name])} :
                    /\ con' = R.con
                    /\ IF R.st # "ok"
                       THEN /\ last' = [op |-> "read", st |-> R.st, ans |-> ans]
                            /\ UNCHANGED flagVars
                       ELSE \E F \in {_setEdgeConnectivity(Flags, R.con, nPatch)} :
                              /\ SetFlags(F)
                              /\ last' = [op |-> "read", st |-> F.st, ans |-> ans]
  /\ UNCHANGED <<nPatch, surfs, coef, tu, tv, files, arg, ret, designVars>>

\* writeEdgeConnectivity(file_name): open(file_name,'w') empties the file,
\* the header is written, then len(None) raises when no table is set
WriteEdgeConnectivity(file_name) ==
  /\ ~Done
  /\ IF conIsNone
     THEN /\ files' = [name \in DOMAIN files \cup {file_name} |->
                        IF name = file_name THEN <<HeaderLine>> ELSE files[name]]
          /\ last' = [op |-> "write", st |-> "raise", ans |-> "none"]
     ELSE /\ files' = [name \in DOMAIN files \cup {file_name} |->
                        IF name = file_name THEN writeEdgeConnectivity(con)
                        ELSE files[name]]
          /\ last' = [op |-> "write", st |-> "ok", ans |-> "none"]
  /\ UNCHANGED <<nPatch, surfs, coef, tu, tv, con, conIsNone, flagVars, arg, ret, designVars>>

NextLoad ==
  \/ \E file_name \in FileNames, ans \in Replies \cup {"none"} :
       readEdgeConnectivity(file_name, ans)
  \/ \E edge_tol \in EdgeTols, ans \in Replies \cup {"none"} :
       calcEdgeConnectivity(edge_tol, ans)
  \/ StitchEdges
  \/ PropagateKnotVectors
  \/ WriteEdgeConnectivity("out.con")

SpecLoad == InitLoad /\ [][NextLoad]_vars

(***************************************************************************)
(* A geometry object that reads a connectivity file which may be           *)
(* malformed.  The well-formed file lists every edge of every patch once,  *)
(* as a SYMMETRY row; the other files differ from it in one row, or lack   *)
(* rows at the end, or hold one row more.                                  *)
(***************************************************************************)
BadPatches == 1    \* patches of the object that reads a malformed file

BadScene == [p \in 0 .. (BadPatches - 1) |-> PatchGeom(<<p, 0>>, Orient_I)]

\* row i of the well-formed file: edge i % 4 of patch i \div 4, free
GoodRow(i) ==
  <<i, i \div 4, i % 4, 0, 3, -1, 1, 2 * (i \div 4) + ((i % 4) \div 2), 10,
    -1, -1>>

\* the lines that may stand in place of row i: the row cut after its
\* third field, the row with a letter for its face number, the row of a
\* patch that does not exist, the row of an edge that does not exist
BadLines(i) ==
  { SubSeq(FormatRow(GoodRow(i)), 1, 22) \o <<"\n">>,
    [FormatRow(GoodRow(i)) EXCEPT ![15] = "x"],
    FormatRow([GoodRow(i) EXCEPT ![2] = BadPatches + 2]),
    FormatRow([GoodRow(i) EXCEPT ![3] = 4]) }

GoodLines == [k \in 1 .. (4 * BadPatches) |-> FormatRow(GoodRow(k - 1))]

BadFiles ==
  {<<HeaderLine>> \o GoodLines}
  \cup UNION {{<<HeaderLine>> \o [GoodLines EXCEPT ![k] = b] :
                 b \in BadLines(k - 1)} : k \in 1 .. (4 * BadPatches)}
  \cup {<<HeaderLine>> \o SubSeq(GoodLines, 1, m) : m \in 0 .. (4 * BadPatches - 1)}
  \cup {<<HeaderLine>> \o GoodLines \o <<FormatRow(GoodRow(0))>>}

InitBad ==
  /\ NewGeo(BadPatches, BadScene)
  /\ \E lines \in BadFiles : files = [name \in {"geo.con"} |-> lines]
  /\ arg = <<>>
  /\ ret = <<>>

NextBad ==
  \/ \E ans \in Replies \cup {"none"} : readEdgeConnectivity("geo.con", ans)
  \/ \E edge_tol \in EdgeTols, ans \in Replies \cup {"none"} :
       calcEdgeConnectivity(edge_tol, ans)
  \/ WriteEdgeConnectivity("out.con")

SpecBad == InitBad /\ [][NextBad]_vars

(***************************************************************************)
(* Fitting, design variables and concatenation.  The least-squares solver, *)
(* the reference axes and the design variables are outside pyGeo: a solve  *)
(* returns either the values the driving control points already have or    *)
(* new ones, and a reference axis or a local design variable either leaves *)
(* the control points of a patch where they are or moves them.             *)
(***************************************************************************)
GeoPatches == 2    \* at most this many patches in the object that is fitted
MaxAxes == 3       \* at most this many reference axes are set
MaxLocal == 1      \* at most this many local design variables are added

\* the patches in a chain: patch p on cell <<p, 0>>
ChainOf(n) == [p \in 0 .. (n - 1) |-> PatchGeom(<<p, 0>>, Orient_I)]

\* the control point of corner n of a patch
CornerPoint(n) ==
  IF n = 0 THEN <<0, 0>>
  ELSE IF n = 1 THEN <<NCtl - 1, 0>>
  ELSE IF n = 2 THEN <<0, NCtl - 1>>
  ELSE <<NCtl - 1, NCtl - 1>>

\* surf.checkCtl(i,j) gives pt_type 0: the control point drives itself, it
\* is neither on a slave edge nor a slave corner
IsDriving(p, ij) ==
  IF \E n \in Edges4 : CornerPoint(n) = ij
  THEN \A n \in Edges4 : CornerPoint(n) = ij => master_node[p][n] # "False"
  ELSE \A e \in Edges4 :
         (\E k \in 0 .. (NCtl - 1) : EdgePoint(e, k) = ij) => master_edge[p][e]

\* the control points in the order of the loops of lines 1110-1115:
\* ipatch, then j, then i
PointOrder(n) ==
  [k \in 1 .. (n * NCtl * NCtl) |->
     <<(k - 1) \div (NCtl * NCtl),
       <<(k - 1) % NCtl, ((k - 1) % (NCtl * NCtl)) \div NCtl>> >>]

\* the control point of column col_counter = k - 1 of the Jacobian
DrivingList ==
  SelectSeq(PointOrder(nPatch), LAMBDA x : IsDriving(x[1], x[2]))

\* the arrays the solver may return for the columns
Solutions ==
  { [k \in 1 .. Len(DrivingList) |-> coef[DrivingList[k][1]][DrivingList[k][2]]],
    [k \in 1 .. Len(DrivingList) |-> <<"solved", k - 1>>] }

\* the calls fitSurfaces makes, in order
fitSteps ==
  <<"_calcNFree", "_initJacobian", "_setCol", "_setRHS", "_solve", "savemat">>

\* what _calcNFree may leave in a patch:
\* <<Nu_free, Nv_free, Nctlu_free, Nctlv_free>>
FreeSizes == {<<2, 1, 3, 2>>, <<1, 1, 3, 3>>}

RECURSIVE Offsets(_, _, _)
\* lines 1095-1101: X = [0]; X.append(X[ipatch] + sizes[ipatch])
Offsets(sizes, X, ipatch) ==
  IF ipatch >= Len(sizes) THEN X
  ELSE Offsets(sizes, Append(X, X[ipatch + 1] + sizes[ipatch + 1]), ipatch + 1)

\* surf.checkCtl(i,j): pt_type 0 for a driving point; edge_info
\* [edge_con, index, dir, edge_type] for a driving point inside a connected
\* edge; node_info the references stored at a driving corner
checkCtl(p, ij) ==
  LET corner == \E n \in Edges4 : CornerPoint(n) = ij
      onEdge == {e \in Edges4 : \E k \in CtlIdx : EdgePoint(e, k) = ij}
  IN IF ~IsDriving(p, ij)
     THEN [pt_type |-> IF corner THEN 2 ELSE 1, edge_info |-> <<>>,
           node_info |-> <<>>]
     ELSE IF corner
     THEN [pt_type |-> 0, edge_info |-> <<>>,
           node_info |-> node_con[p][CHOOSE n \in Edges4 : CornerPoint(n) = ij]]
     ELSE IF onEdge # {} /\ edge_con[p][CHOOSE e \in onEdge : TRUE] # <<>>
     THEN LET e == CHOOSE e \in onEdge : TRUE
          IN [pt_type |-> 0,
              edge_info |-> <<edge_con[p][e],
                              CHOOSE k \in CtlIdx : EdgePoint(e, k) = ij,
                              dir[p][e], edge_type[p][e]>>,
              node_info |-> <<>>]
     ELSE [pt_type |-> 0, edge_info |-> <<>>, node_info |-> <<>>]

\* a faulty variant of EdgeCall: the edge derivative goes to the row block
\* of the driving patch
EdgeCall_ownblock(ipatch, edge_info, M, col_counter) ==
  IF edge_info # <<>> /\ edge_info[4] = 1
  THEN << [vec |-> <<"_calcCtlDerivEdge", edge_info[1][1], edge_info[1][2],
                     edge_info[2], edge_info[3]>>,
           i |-> M[ipatch + 1],
           len |-> M[ipatch + 2] - M[ipatch + 1],
           j |-> col_counter] >>
  ELSE <<>>

\* lines 1122-1131: the call _setCol(vec, M[face], col_counter) for a
\* driving point with edge_info, made only for edge_type 1
EdgeCall(ipatch, edge_info, M, col_counter) ==
  IF edge_info # <<>> /\ edge_info[4] = 1
  THEN << [vec |-> <<"_calcCtlDerivEdge", edge_info[1][1], edge_info[1][2],
                     edge_info[2], edge_info[3]>>,
           i |-> M[edge_info[1][1] + 1],
           len |-> M[edge_info[1][1] + 2] - M[edge_info[1][1] + 1],
           j |-> col_counter] >>
  ELSE <<>>

\* lines 1133-1141: one call _setCol per element of node_info
NodeCalls(node_info, M, col_counter) ==
  [k \in 1 .. Len(node_info) |->
     [vec |-> <<"_calcCtlDerivNode", node_info[k][1], node_info[k][2]>>,
      i |-> M[node_info[k][1] + 1],
      len |-> M[node_info[k][1] + 2] - M[node_info[k][1] + 1],
      j |-> col_counter]]

\* lines 1117-1141 for a driving point: its own derivative in the row block
\* of its patch, then the edge and the corner couplings
CallsAt(ipatch, ij, M, col_counter) ==
  LET info == checkCtl(ipatch, ij)
  IN << [vec |-> <<"_calcCtlDeriv", ipatch, ij[1], ij[2]>>,
         i |-> M[ipatch + 1],
         len |-> M[ipatch + 2] - M[ipatch + 1],
         j |-> col_counter] >>
     \o EdgeCall(ipatch, info.edge_info, M, col_counter)
     \o NodeCalls(info.node_info, M, col_counter)

RECURSIVE SetColLoop(_, _, _, _, _)
\* the loops of lines 1110-1145 over the points pts[k ..]: the _setCol
\* calls, in order
SetColLoop(pts, k, M, col_counter, calls) ==
  IF k > Len(pts) THEN calls
  ELSE IF checkCtl(pts[k][1], pts[k][2]).pt_type = 0
  THEN SetColLoop(pts, k + 1, M, col_counter + 1,
                  calls \o CallsAt(pts[k][1], pts[k][2], M, col_counter + 1))
  ELSE SetColLoop(pts, k + 1, M, col_counter, calls)

\* the entries a call _setCol(vec, i, j) writes: J[i:i+len(vec), j]
Written(call) == {<<call.i + d, call.j>> : d \in 0 .. (call.len - 1)}

\* self.J after the _setCol calls (lines 1177-1186) on the zero matrix of
\* _initJacobian: J[i:i+len(vec), j] = vec assigns, so an entry holds the
\* element of the vector written there last.  An entry is the set of the
\* terms its value is the sum of; entries never written are zero and are
\* left out.
Jacobian(calls) ==
  [rc \in UNION {Written(calls[k]) : k \in 1 .. Len(calls)} |->
     LET k == CHOOSE k \in 1 .. Len(calls) :
                /\ rc \in Written(calls[k])
                /\ \A m \in (k + 1) .. Len(calls) : rc \notin Written(calls[m])
     IN {<<calls[k].vec, rc[1] - calls[k].i>>}]

\* a faulty variant of _setRHS: the data of every patch start at row 0
_setRHS_rowzero(M, n) ==
  [idim \in 1 .. 3 |->
     [r \in 1 .. M[n + 1] |->
        IF \E ipatch \in 0 .. (n - 1) : r - 1 < M[ipatch + 2] - M[ipatch + 1]
        THEN LET ipatch == CHOOSE q \in 0 .. (n - 1) :
                             /\ r - 1 < M[q + 2] - M[q + 1]
                             /\ \A q2 \in (q + 1) .. (n - 1) :
                                  ~(r - 1 < M[q2 + 2] - M[q2 + 1])
             IN <<"X", ipatch, idim - 1, r - 1>>
        ELSE 0]]

\* lines 1188-1202: for each dimension a vector of M[-1] zeros into which
\* the flattened cropped data of patch ipatch are copied from row M[ipatch]
_setRHS(M, n) ==
  [idim \in 1 .. 3 |->
     [r \in 1 .. M[n + 1] |->
        IF \E ipatch \in 0 .. (n - 1) :
             M[ipatch + 1] <= r - 1 /\ r - 1 < M[ipatch + 2]
        THEN LET ipatch == CHOOSE q \in 0 .. (n - 1) :
                             /\ M[q + 1] <= r - 1 /\ r - 1 < M[q + 2]
                             /\ \A q2 \in (q + 1) .. (n - 1) :
                                  ~(M[q2 + 1] <= r - 1 /\ r - 1 < M[q2 + 2])
             IN <<"X", ipatch, idim - 1, r - 1 - M[ipatch + 1]>>
        ELSE 0]]

\* fitSurfaces(): the block offsets, the Jacobian with one column per
\* driving control point, the right-hand sides; _solve stores the solution
\* in self.coef and saves it to coef_lapack.mat
FitSurfaces ==
  /\ ~Done
  /\ \E X \in Solutions, free \in [1 .. nPatch -> FreeSizes] :
       /\ geoCoef' = X
       /\ files' = [name \in DOMAIN files \cup {"coef_lapack.mat"} |->
                      IF name = "coef_lapack.mat" THEN <<X>> ELSE files[name]]
       /\ \E M \in {Offsets([p \in 1 .. nPatch |-> free[p][1] * free[p][2]],
                            <<0>>, 0)} :
            \E calls \in {SetColLoop(PointOrder(nPatch), 1, M, -1, <<>>)} :
              last' = [op |-> "fit", st |-> "ok", ans |-> "none",
                       steps |-> fitSteps, free |-> free, M |-> M,
                       N |-> Offsets([p \in 1 .. nPatch |->
                                        free[p][3] * free[p][4]], <<0>>, 0),
                       calls |-> calls, J |-> Jacobian(calls),
                       RHS |-> _setRHS(M, nPatch)]
  /\ UNCHANGED <<nPatch, surfs, coef, tu, tv, con, conIsNone, flagVars, arg,
                 ret, ref_axis_surface_con, DV_listLocal>>

\* the patch lists setRefAxis is called with: the last patch alone
PatchLists == {<<nPatch - 1>>}

\* setRefAxis(patch_list, ref_axis)
SetRefAxis(patch_list) ==
  /\ ~Done
  /\ Len(ref_axis_surface_con) < MaxAxes
  /\ ref_axis_surface_con' = Append(ref_axis_surface_con, patch_list)
  /\ last' = [op |-> "setRefAxis", st |-> "ok", ans |-> "none"]
  /\ UNCHANGED <<nPatch, surfs, coef, tu, tv, con, conIsNone, flagVars, files,
                 arg, ret, geoCoef, DV_listLocal>>

\* addGeoDVLocal(dv_name, lower, upper, surface_id)
AddGeoDVLocal(surface_id) ==
  /\ ~Done
  /\ Len(DV_listLocal) < MaxLocal
  /\ DV_listLocal' = Append(DV_listLocal, surface_id)
  /\ last' = [op |-> "addGeoDVLocal", st |-> "ok", ans |-> "none"]
  /\ UNCHANGED <<nPatch, surfs, coef, tu, tv, con, conIsNone, flagVars, files,
                 arg, ret, geoCoef, ref_axis_surface_con>>

\* the control points of patch p after a reference axis or a design
\* variable moved them
MovedPatch(p) == [ij \in CtlIdx \X CtlIdx |-> <<p, ij[1], ij[2], "moved">>]

\* lines 1324-1352: the patches of every reference axis and the surfaces
\* of the local design variables are updated
MovedCoef(C, moves) ==
  [p \in DOMAIN C |->
     IF moves /\ (\/ \E r \in 1 .. Len(ref_axis_surface_con) :
                       \E k \in 1 .. Len(ref_axis_surface_con[r]) :
                         ref_axis_surface_con[r][k] = p
                  \/ \E k \in 1 .. Len(DV_listLocal) : DV_listLocal[k] = p)
     THEN MovedPatch(p) ELSE C[p]]

\* the calls update makes, in order
updateSteps ==
  <<"DV_listGlobal", "ref_axis.update", "surf.update", "DV_listLocal",
    "stitchEdges">>

\* update(): the prints of lines 1318-1320 raise IndexError with fewer
\* than three reference axes, before any patch is touched; stitchEdges
\* raises when no table is set, after the patches were updated
Update(moves) ==
  /\ ~Done
  /\ IF Len(ref_axis_surface_con) < 3
     THEN /\ last' = [op |-> "update", st |-> "raise", ans |-> "none",
                      steps |-> SubSeq(updateSteps, 1, 1)]
          /\ UNCHANGED coef
     ELSE IF conIsNone
     THEN /\ coef' = MovedCoef(coef, moves)
          /\ last' = [op |-> "update", st |-> "raise", ans |-> "none",
                      steps |-> updateSteps]
     ELSE /\ coef' = stitchEdges(MovedCoef(coef, moves), con, nPatch)
          /\ last' = [op |-> "update", st |-> "ok", ans |-> "none",
                      steps |-> updateSteps]
  /\ UNCHANGED <<nPatch, surfs, tu, tv, con, conIsNone, flagVars, files, arg,
                 ret, designVars>>

\* the function f on 0 .. n-1 extended by the values of g on n .. n+m-1
Extend(f, n, m, g) ==
  [p \in 0 .. (n + m - 1) |-> IF p < n THEN f[p] ELSE g[p]]

\* a faulty variant of addGeoObject: the connection table is kept
AddGeoObject_keepcon(m) ==
  /\ ~Done
  /\ nPatch + m <= GeoPatches
  /\ nPatch' = nPatch + m
  /\ surfs' = Extend(surfs, nPatch, m, ChainOf(nPatch + m))
  /\ coef' = Extend(coef, nPatch, m, FreshCoef(nPatch + m))
  /\ tu' = Extend(tu, nPatch, m, FreshTu(nPatch + m))
  /\ tv' = Extend(tv, nPatch, m, FreshTv(nPatch + m))
  /\ edge_con' = Extend(edge_con, nPatch, m, FreshFlags(nPatch + m).edge_con)
  /\ master_edge' =
       Extend(master_edge, nPatch, m, FreshFlags(nPatch + m).master_edge)
  /\ dir' = Extend(dir, nPatch, m, FreshFlags(nPatch + m).dir)
  /\ edge_type' = Extend(edge_type, nPatch, m, FreshFlags(nPatch + m).edge_type)
  /\ master_node' =
       Extend(master_node, nPatch, m, FreshFlags(nPatch + m).master_node)
  /\ node_con' = Extend(node_con, nPatch, m, FreshFlags(nPatch + m).node_con)
  /\ ref_axis_surface_con' = <<>>
  /\ DV_listLocal' = <<>>
  /\ last' = [op |-> "add", st |-> "ok", ans |-> "none", added |-> m]
  /\ UNCHANGED <<files, arg, ret, geoCoef, con, conIsNone>>

\* addGeoObject(geo_obj) with a geo_obj of m freshly built patches, which
\* continue the chain
AddGeoObject(m) ==
  /\ ~Done
  /\ nPatch + m <= GeoPatches
  /\ nPatch' = nPatch + m
  /\ surfs' = Extend(surfs, nPatch, m, ChainOf(nPatch + m))
  /\ coef' = Extend(coef, nPatch, m, FreshCoef(nPatch + m))
  /\ tu' = Extend(tu, nPatch, m, FreshTu(nPatch + m))
  /\ tv' = Extend(tv, nPatch, m, FreshTv(nPatch + m))
  /\ edge_con' = Extend(edge_con, nPatch, m, FreshFlags(nPatch + m).edge_con)
  /\ master_edge' =
       Extend(master_edge, nPatch, m, FreshFlags(nPatch + m).master_edge)
  /\ dir' = Extend(dir, nPatch, m, FreshFlags(nPatch + m).dir)
  /\ edge_type' = Extend(edge_type, nPatch, m, FreshFlags(nPatch + m).edge_type)
  /\ master_node' =
       Extend(master_node, nPatch, m, FreshFlags(nPatch + m).master_node)
  /\ node_con' = Extend(node_con, nPatch, m, FreshFlags(nPatch + m).node_con)
  /\ con' = <<>>
  /\ conIsNone' = TRUE
  /\ ref_axis_surface_con' = <<>>
  /\ DV_listLocal' = <<>>
  /\ last' = [op |-> "add", st |-> "ok", ans |-> "none", added |-> m]
  /\ UNCHANGED <<files, arg, ret, geoCoef>>

\* a hand-written table for two patches: patch 1 has its edge 0 pinched to
\* a point and wraps round corner 0 of patch 0, its edges 2 and 3 lying on
\* the edges 0 and 2 of patch 0
FanRows ==
  << <<0, 0, 0, 1, 7, 0, 1, 0, 10, 1, 2>>,
     <<1, 0, 2, 1, 7, 0, 1, 1, 10, 1, 3>> >>

FanFile == <<HeaderLine>> \o [k \in 1 .. Len(FanRows) |-> FormatRow(FanRows[k])]

InitGeo ==
  /\ \E n \in 1 .. GeoPatches : NewGeo(n, ChainOf(n))
  /\ files = [name \in {"fan.con"} |-> FanFile]
  /\ arg = <<>>
  /\ ret = <<>>

NextGeo ==
  \/ \E edge_tol \in EdgeTols, ans \in Replies \cup {"none"} :
       calcEdgeConnectivity(edge_tol, ans)
  \/ \E ans \in Replies \cup {"none"} : readEdgeConnectivity("fan.con", ans)
  \/ FitSurfaces
  \/ \E patch_list \in PatchLists : SetRefAxis(patch_list)
  \/ \E surface_id \in Patches : AddGeoDVLocal(surface_id)
  \/ \E moves \in BOOLEAN : Update(moves)
  \/ \E m \in 1 .. (GeoPatches - 1) : AddGeoObject(m)
  \/ StitchEdges

SpecGeo == InitGeo /\ [][NextGeo]_vars

(***************************************************************************)
(* _test_edge called directly on two surfaces given by the samples of the  *)
(* tested edges.                                                           *)
(***************************************************************************)
MaxTol == 2        \* largest edge tolerance of a direct call

\* the sample points: the points of a line and one point off it
Points == {<<x, 0, 0>> : x \in 0 .. MaxCoord} \cup {<<0, 1, 0>>}

\* a surface whose boundary curves all run through the samples smp
SurfOf(smp) == [e \in Edges4 |-> smp]

InitTest ==
  /\ NewGeo(1, [p \in {0} |-> PatchGeom(<<0, 0>>, Orient_I)])
  /\ files = <<>>
  /\ \E s1 \in Points \X Points \X Points, s2 \in Points \X Points \X Points,
        i \in {0, 3}, j \in {1}, edge_tol \in 0 .. MaxTol :
       arg = [surf1 |-> SurfOf(s1), surf2 |-> SurfOf(s2), i |-> i, j |-> j,
              edge_tol |-> edge_tol]
  /\ ret = <<>>

\* the two calls _test_edge(surf1,surf2,i,j,tol), _test_edge(surf2,surf1,j,i,tol)
TestEdge ==
  /\ ret = <<>>
  /\ ret' = [fwd |-> _test_edge(arg.surf1, arg.surf2, arg.i, arg.j, arg.edge_tol),
             bwd |-> _test_edge(arg.surf2, arg.surf1, arg.j, arg.i, arg.edge_tol)]
  /\ UNCHANGED <<nPatch, surfs, coef, tu, tv, con, conIsNone, flagVars, files,
                 last, arg, designVars>>

NextTest == TestEdge

SpecTest == InitTest /\ [][NextTest]_vars

(***************************************************************************)
(* GlobalLinearConstraint.setMonotonic (constraints/baseConstraint.py).    *)
(* The design variable (its nVal and config) belongs to DVGeometry; the    *)
(* call is made with arg = [ndv, start, stop, slope, config, dvconfig,     *)
(* ncon], ncon being self.ncon before the call.                            *)
(***************************************************************************)
MaxNdv == 4        \* at most this many values in the design variable

\* len(a[lo:hi]) for a sequence a of length n
SliceLen(n, lo, hi) ==
  LET clip(k) == IF k < 0 THEN (IF k + n < 0 THEN 0 ELSE k + n)
                 ELSE IF k > n THEN n ELSE k
  IN IF clip(hi) > clip(lo) THEN clip(hi) - clip(lo) ELSE 0

\* self.config is None or self.config in DV.config: "yes", "no", or "raise"
\* when DV.config is None and the membership test fails with TypeError
ConfigApplies(config, dvconfig) ==
  IF config = "None" THEN "yes"
  ELSE IF dvconfig = "None" THEN "raise"
  ELSE IF \E k \in 1 .. Len(dvconfig) : dvconfig[k] = config THEN "yes"
  ELSE "no"

\* lines 358-363: the rows of the Jacobian, or the IndexError of an
\* assignment outside the ndv columns
MonotonicRows(ncon, ndv, start, slope) ==
  IF \E i \in 0 .. (ncon - 1) : ~PyOK(start + i, ndv) \/ ~PyOK(start + i + 1, ndv)
  THEN [st |-> "raise", jac |-> <<>>]
  ELSE [st |-> "ok",
        jac |-> [r \in 1 .. ncon |->
                   [c \in 1 .. ndv |->
                      IF c - 1 = Py(start + r, ndv) THEN -slope
                      ELSE IF c - 1 = Py(start + r - 1, ndv) THEN slope
                      ELSE 0]]]

\* a faulty variant of setMonotonic: stop is taken as an exclusive bound
setMonotonic_exclusive(a) ==
  IF ConfigApplies(a.config, a.dvconfig) = "raise"
  THEN [st |-> "raise", built |-> FALSE, jac |-> <<>>, ncon |-> a.ncon]
  ELSE IF ConfigApplies(a.config, a.dvconfig) = "no"
  THEN [st |-> "ok", built |-> FALSE, jac |-> <<>>, ncon |-> a.ncon]
  ELSE
    LET stop == IF a.stop = -1 THEN a.ndv ELSE a.stop
        ncon == SliceLen(a.ndv, a.start, stop) - 1
    IN IF ncon < 0
       THEN [st |-> "raise", built |-> FALSE, jac |-> <<>>, ncon |-> a.ncon]
       ELSE LET R == MonotonicRows(ncon, a.ndv, a.start, a.slope)
            IN IF R.st # "ok"
               THEN [st |-> "raise", built |-> FALSE, jac |-> <<>>, ncon |-> a.ncon]
               ELSE [st |-> "ok", built |-> TRUE, jac |-> R.jac,
                     ncon |-> a.ncon + ncon]

\* setMonotonic(options), lines 340-364: stop = -1 becomes ndv, stop is
\* increased by one, ncon is the length of the slice [start:stop] less one;
\* np.zeros((ncon, ndv)) raises ValueError for a negative ncon
setMonotonic(a) ==
  IF ConfigApplies(a.config, a.dvconfig) = "raise"
  THEN [st |-> "raise", built |-> FALSE, jac |-> <<>>, ncon |-> a.ncon]
  ELSE IF ConfigApplies(a.config, a.dvconfig) = "no"
  THEN [st |-> "ok", built |-> FALSE, jac |-> <<>>, ncon |-> a.ncon]
  ELSE
    LET stop == (IF a.stop = -1 THEN a.ndv ELSE a.stop) + 1
        ncon == SliceLen(a.ndv, a.start, stop) - 1
    IN IF ncon < 0
       THEN [st |-> "raise", built |-> FALSE, jac |-> <<>>, ncon |-> a.ncon]
       ELSE LET R == MonotonicRows(ncon, a.ndv, a.start, a.slope)
            IN IF R.st # "ok"
               THEN [st |-> "raise", built |-> FALSE, jac |-> <<>>, ncon |-> a.ncon]
               ELSE [st |-> "ok", built |-> TRUE, jac |-> R.jac,
                     ncon |-> a.ncon + ncon]

InitMono ==
  /\ NewGeo(1, [p \in {0} |-> PatchGeom(<<0, 0>>, Orient_I)])
  /\ files = <<>>
  /\ \E ndv \in 0 .. MaxNdv, start \in -1 .. MaxNdv, stop \in -2 .. (MaxNdv + 1),
        slope \in {-1, 2}, config \in {"None", "a"},
        dvconfig \in {"None", <<"a">>, <<"b">>}, ncon \in {0, 1} :
       arg = [ndv |-> ndv, start |-> start, stop |-> stop, slope |-> slope,
              config |-> config, dvconfig |-> dvconfig, ncon |-> ncon]
  /\ ret = <<>>

\* the call of setMonotonic
SetMonotonic ==
  /\ ret = <<>>
  /\ ret' = setMonotonic(arg)
  /\ UNCHANGED <<nPatch, surfs, coef, tu, tv, con, conIsNone, flagVars, files,
                 last, arg, designVars>>

NextMono == SetMonotonic

SpecMono == InitMono /\ [][NextMono]_vars

(***************************************************************************)
(* Properties                                                              *)
(***************************************************************************)
\* the last call was a calcEdgeConnectivity that ran to its end
CalcDone == last.op = "calc" /\ last.st = "ok"

\* the (patch, edge) references of a connection record
EdgesOfRec(c) ==
  IF c.type = 1 THEN {<<c.f1, c.e1>>, <<c.f2, c.e2>>} ELSE {<<c.f1, c.e1>>}

\* how many references to edge e of patch p the connection table holds
NRefs(p, e) ==
  Cardinality({k \in 1 .. Len(con) : con[k].f1 = p /\ con[k].e1 = e})
  + Cardinality({k \in 1 .. Len(con) :
                   con[k].type = 1 /\ con[k].f2 = p /\ con[k].e2 = e})

\* the edge opposite to e on the same patch
OppositeEdge(e) == IF e \in {0, 1} THEN 1 - e ELSE 5 - e

\* C1: after calcEdgeConnectivity completes, every (patch, edge) pair is
\* referenced by exactly one connection record (as f1/e1 or f2/e2 of a
\* STITCH record or as the reference of a SYMMETRY record), also when an
\* edge tests coincident with two or more other edges.
C1_EveryEdgeOnce ==
  CalcDone => \A p \in Patches, e \in Edges4 : NRefs(p, e) = 1

\* C2: after stitchEdges, for every STITCH record the control points of
\* the slave edge (f2,e2) are those of the master edge (f1,e1), reversed
\* when dir = -1, also when several records write slave edges that share
\* a corner control point.
C2_SlaveEqualsMaster ==
  (last.op = "stitch" /\ last.st = "ok") =>
    \A k \in 1 .. Len(con) :
      con[k].type = 1 =>
        getCoefEdge(coef[con[k].f2], con[k].e2)
          = IF con[k].dir = -1
            THEN Reverse(getCoefEdge(coef[con[k].f1], con[k].e1))
            ELSE getCoefEdge(coef[con[k].f1], con[k].e1)

\* two records are linked when they hold the same edge or opposite edges
\* of one patch
Linked(c, d) ==
  \E x \in EdgesOfRec(c), y \in EdgesOfRec(d) :
    x[1] = y[1] /\ (x[2] = y[2] \/ x[2] = OppositeEdge(y[2]))

\* three patches in a chain: edge 1 of patch p meets edge 0 of patch p+1
ChainScene ==
  /\ nPatch = 3
  /\ surfs = [p \in 0 .. 2 |-> PatchGeom(<<p, 0>>, Orient_I)]

\* C4: after calcEdgeConnectivity all edges reachable from one another by
\* steps to the opposite edge of the same patch and to the edge stitched
\* to it carry one driving group; for three patches in a chain the six
\* edges 0/1 are in a single driving group.
C4_GroupClosure ==
  CalcDone =>
    /\ \A k, m \in 1 .. Len(con) :
         Linked(con[k], con[m]) => con[k].dg = con[m].dg
    /\ ChainScene =>
         \A k, m \in 1 .. Len(con) :
           (/\ \E x \in EdgesOfRec(con[k]) : x[2] \in {0, 1}
            /\ \E y \in EdgesOfRec(con[m]) : y[2] \in {0, 1})
           => con[k].dg = con[m].dg

\* two patches whose only coincident edges are edge 1 of patch 0 and
\* edge 0 of patch 1, in the same sense
OneSharedEdge ==
  /\ nPatch = 2
  /\ \A i, j \in Edges4 :
       LET t == _test_edge(surfs[0], surfs[1], i, j, 1)
       IN IF i = 1 /\ j = 0 THEN t = <<TRUE, 1>> ELSE ~t[1]

\* C5: for two patches sharing only edge 1 of patch 0 and edge 0 of patch
\* 1 in the same sense, calcEdgeConnectivity gives exactly one STITCH
\* record, of direction +1, one driving group holds both shared edges,
\* the corners 2 and 3 of patch 0 are masters and the corners 0 and 1 of
\* patch 1 are slaves that reference the corners 2 and 3 of patch 0.
C5_TwoPatches ==
  (CalcDone /\ OneSharedEdge) =>
    /\ Cardinality({k \in 1 .. Len(con) : con[k].type = 1}) = 1
    /\ \E k \in 1 .. Len(con) :
         /\ con[k].type = 1 /\ con[k].dir = 1
         /\ EdgesOfRec(con[k]) = {<<0, 1>>, <<1, 0>>}
    /\ \A k, m \in 1 .. Len(con) :
         (/\ EdgesOfRec(con[k]) \cap {<<0, 1>>, <<1, 0>>} # {}
          /\ EdgesOfRec(con[m]) \cap {<<0, 1>>, <<1, 0>>} # {})
         => con[k].dg = con[m].dg
    /\ master_node[0][2] = "True" /\ master_node[0][3] = "True"
    /\ master_node[1][0] = "False" /\ master_node[1][1] = "False"
    /\ node_con[1][0] = << <<0>>, <<2>> >>
    /\ node_con[1][1] = << <<0>>, <<3>> >>

\* a state in which calcEdgeConnectivity has completed on two patches that
\* share exactly edge 1 of patch 0 and edge 0 of patch 1
C5_Reached ==
  /\ CalcDone /\ OneSharedEdge
  /\ \E k \in 1 .. Len(con) : con[k].type = 1 /\ con[k].f1 = 0 /\ con[k].e1 = 1
  /\ master_node[1][0] = "False"

\* the knot vector of the patch of edge x = <<p, e>> in the direction of e
KnotOf(x) == IF x[2] \in {0, 1} THEN tu[x[1]] ELSE tv[x[1]]

\* C3: after propagateKnotVectors any two edges that carry the same
\* driving-group id have identical knot vectors in their directions (tu
\* for the edges 0 and 1, tv for the edges 2 and 3), for computed and for
\* loaded connection tables.
C3_SameGroupSameKnots ==
  (last.op = "knots" /\ last.st = "ok") =>
    \A k, m \in 1 .. Len(con) :
      con[k].dg = con[m].dg =>
        \A x \in EdgesOfRec(con[k]), y \in EdgesOfRec(con[m]) :
          KnotOf(x) = KnotOf(y)

\* C6: when a connection table is set, calcEdgeConnectivity and
\* readEdgeConnectivity change the table and the edge/node flags only if
\* the reply to the prompt is the confirmation "1".
C6_OnlyOnConfirm ==
  [][(~conIsNone /\ last'.op \in {"calc", "read"} /\ last'.ans # "1")
       => UNCHANGED <<con, flagVars>>]_vars

\* C7: the lines written by writeEdgeConnectivity, parsed back as
\* readEdgeConnectivity parses them, give the records of the table in the
\* same number and order, equal field by field.
C7_RoundTrip ==
  (last.op = "write" /\ last.st = "ok") =>
    ReadCon(files["out.con"]) = [st |-> "ok", con |-> con]

\* a state in which a table of two records, one of them a STITCH record
\* whose second face and edge differ, has been written
C7_Reached ==
  /\ last.op = "write" /\ last.st = "ok"
  /\ Len(con) = 2
  /\ Len(files["out.con"]) = 3
  /\ \E k \in 1 .. Len(con) : con[k].type = 1 /\ con[k].f2 # con[k].e2

\* C8: a second stitchEdges straight after a first leaves all control
\* points as the first left them.
C8_StitchTwice ==
  [][(last.op = "stitch" /\ last.st = "ok" /\ last'.op = "stitch")
       => coef' = coef]_vars

\* C9: a second propagateKnotVectors straight after a first leaves all
\* knot vectors tu and tv as the first left them.
C9_KnotsTwice ==
  [][(last.op = "knots" /\ last.st = "ok" /\ last'.op = "knots")
       => (tu' = tu /\ tv' = tv)]_vars

\* C10: _test_edge(A,eA,B,eB,tol) and _test_edge(B,eB,A,eA,tol) return
\* the same coincidence flag and the same direction flag.
C10_Symmetric == ret # <<>> => ret.fwd = ret.bwd

\* a state in which _test_edge has found two edges coincident in opposite
\* senses, whichever edge is given first
C10_Reached ==
  /\ ret # <<>>
  /\ ret.fwd = <<TRUE, -1>>
  /\ ret.bwd = <<TRUE, -1>>
  /\ arg.surf1 # arg.surf2

\* the references (two of a STITCH record, one of a SYMMETRY record) of a
\* table
NAllRefs(table) ==
  Len(table) + Cardinality({k \in 1 .. Len(table) : table[k].type = 1})

\* a file is malformed: a row cannot be parsed, or the rows do not hold
\* 4*nPatch edge references, or a patch or edge index is out of range
Malformed(lines) ==
  \/ \E i \in 2 .. Len(lines) : edge_raises(ReplaceBars(lines[i]))
  \/ LET table == ReadCon(lines).con
     IN \/ NAllRefs(table) # 4 * nPatch
        \/ \E k \in 1 .. Len(table) :
             \/ table[k].f1 \notin Patches \/ table[k].e1 \notin Edges4
             \/ /\ table[k].type = 1
                /\ (table[k].f2 \notin Patches \/ table[k].e2 \notin Edges4)

\* C11: readEdgeConnectivity of a malformed file (an unparsable row, a
\* wrong number of rows, an index out of range) fails, and the connection
\* table and the edge and node flags are after it what they were before.
\* (The file read is geo.con.)
C11_BadTableRejected ==
  [][(/\ last'.op = "read" /\ last'.st # "quit"
      /\ "geo.con" \in DOMAIN files /\ Malformed(files["geo.con"]))
       => (last'.st = "raise" /\ UNCHANGED <<con, flagVars>>)]_vars

\* C12: after fitSurfaces every driving control point of every patch
\* holds the value of its column of the solved array self.coef.
C12_Scattered ==
  (last.op = "fit" /\ last.st = "ok") =>
    \A k \in 1 .. Len(DrivingList) :
      coef[DrivingList[k][1]][DrivingList[k][2]] = geoCoef[k]

\* C13: the last call made by a fitSurfaces and by an update that return
\* is stitchEdges, after all changes to the control points of the patches.
C13_StitchLast ==
  (last.op \in {"fit", "update"} /\ last.st = "ok") =>
    last.steps[Len(last.steps)] = "stitchEdges"

\* C14: addGeoObject leaves the connection table unset and nPatch the sum
\* of the patch counts, and while the table is unset the calls that use
\* its records (stitchEdges, update) fail.
C14_AddInvalidates ==
  [][/\ last'.op = "add" =>
          /\ conIsNone' /\ con' = <<>>
          /\ nPatch' = nPatch + last'.added
     /\ (conIsNone /\ last'.op \in {"stitch", "update"}) => last'.st = "raise"
    ]_vars

\* a state right after addGeoObject on an object whose connectivity had
\* been computed: the corner flags of patch 0 are still set
C14_Reached ==
  /\ last.op = "add" /\ conIsNone
  /\ nPatch = 2
  /\ master_node[0][0] = "True"

\* C15: after calcEdgeConnectivity, for every patch p and edge e the
\* record that holds (p, e) and the record that holds the opposite edge
\* (p, _flipEdge(e)) carry the same driving group.
C15_OppositeSameGroup ==
  CalcDone =>
    \A p \in Patches, e \in Edges4 :
      \A k, m \in 1 .. Len(con) :
        (/\ <<p, e>> \in EdgesOfRec(con[k])
         /\ <<p, _flipEdge(e)>> \in EdgesOfRec(con[m]))
          => con[k].dg = con[m].dg

\* C16: after calcEdgeConnectivity has computed a table, every record of
\* it carries a driving group >= 0 (none is left at -1), whatever pairs of
\* edges were matched.
C16_AllColoured ==
  (last.op = "calc" /\ last.st # "quit") =>
    \A k \in 1 .. Len(con) : con[k].dg >= 0

\* a computed table with STITCH records in which some edge was matched
\* with two other edges
C16_Reached ==
  /\ last.op = "calc" /\ last.st # "quit"
  /\ \E k \in 1 .. Len(con) : con[k].type = 1
  /\ \E p \in Patches, e \in Edges4 : NRefs(p, e) > 1

\* two STITCH records join the same two patches along opposite edges: the
\* patches form a closed ring
ClosedRing ==
  \E k, m \in 1 .. Len(con) :
    /\ con[k].type = 1 /\ con[m].type = 1
    /\ con[k].f1 = con[m].f1 /\ con[k].f2 = con[m].f2
    /\ con[m].e1 = _flipEdge(con[k].e1)
    /\ con[m].e2 = _flipEdge(con[k].e2)

\* C17: in calcEdgeConnectivity every walk of the driving groups comes to
\* its end without an exception: each of the two walks of a start record
\* stops at a mirror (SYMMETRY) record or at a record that already has a
\* group, also in a closed ring of patches and when the opposite edge of
\* the start edge is the second reference of its STITCH record.
C17_WalksEnd ==
  (last.op = "calc" /\ last.st # "quit") =>
    /\ WalksStatus(last.walks) = "ok"
    /\ \A k \in 1 .. Len(last.walks) :
         /\ last.walks[k].first \in {"none", "mirror", "coloured"}
         /\ last.walks[k].second \in {"none", "mirror", "coloured"}

\* a computed table of a closed ring, with a start record whose opposite
\* edge is the second reference of a STITCH record
C17_Reached ==
  /\ last.op = "calc" /\ last.st = "ok"
  /\ ClosedRing
  /\ \E k \in 1 .. Len(last.walks) :
       /\ last.walks[k].order = 1
       /\ last.walks[k].second = "coloured"

\* _setEdgeConnectivity has run to its end in the last call
NodesSet == last.op \in {"calc", "read"} /\ last.st = "ok"

\* node_con[p][j] is one reference [f, n] to a corner of a patch
IsBackRef(x) ==
  /\ Len(x) = 2 /\ Len(x[1]) = 1 /\ Len(x[2]) = 1
  /\ x[1][1] \in Patches /\ x[2][1] \in Edges4

\* C18: after _setEdgeConnectivity every slave corner holds exactly one
\* back-reference, and the corner it names is a master corner, not a
\* slave; also for loaded tables in which a corner that an earlier record
\* used as master is made slave by a later record.
C18_SlaveRefersToMaster ==
  NodesSet =>
    \A p \in Patches, j \in Edges4 :
      master_node[p][j] = "False" =>
        /\ IsBackRef(node_con[p][j])
        /\ master_node[node_con[p][j][1][1]][node_con[p][j][2][1]] = "True"

RECURSIVE RootOf(_, _, _)
\* the corner that the back-references lead to from corner j of patch p,
\* following at most fuel references
RootOf(p, j, fuel) ==
  IF fuel = 0 \/ ~IsBackRef(node_con[p][j]) THEN <<p, j>>
  ELSE RootOf(node_con[p][j][1][1], node_con[p][j][2][1], fuel - 1)

\* the corner pairs that STITCH record c joins: first with first, second
\* with second, the corners of the master edge swapped when dir is -1
CornerPairs(c) ==
  LET m == _getNodesFromEdge(c.e1)
      s == _getNodesFromEdge(c.e2)
  IN IF c.dir = 1
     THEN {<<<<c.f1, m[1]>>, <<c.f2, s[1]>>>>, <<<<c.f1, m[2]>>, <<c.f2, s[2]>>>>}
     ELSE {<<<<c.f1, m[2]>>, <<c.f2, s[1]>>>>, <<<<c.f1, m[1]>>, <<c.f2, s[2]>>>>}

\* C19: after _setEdgeConnectivity the two corners of each corner pair of
\* every STITCH record resolve to the same master corner, also when the
\* corner of the second reference had been made slave by an earlier
\* record.
C19_PairsShareMaster ==
  NodesSet =>
    \A k \in 1 .. Len(con) :
      con[k].type = 1 =>
        \A pr \in CornerPairs(con[k]) :
          RootOf(pr[1][1], pr[1][2], 4 * nPatch)
            = RootOf(pr[2][1], pr[2][2], 4 * nPatch)

\* how often corner s is listed in the slave list of corner m
ListedAt(s, m) ==
  Cardinality({k \in 1 .. Len(node_con[m[1]][m[2]]) :
                 node_con[m[1]][m[2]][k] = s})

\* the corners of all patches
Corners == Patches \X Edges4

\* C20: after the back-propagation of _setEdgeConnectivity every slave
\* corner is listed once in the slave list of the master corner that its
\* back-reference resolves to and in no other list, and a slave list
\* holds nothing but such corners.
C20_SlaveListsExact ==
  NodesSet =>
    \A c \in Corners :
      IF IsBackRef(node_con[c[1]][c[2]])
      THEN /\ ~IsBackRef(node_con[RootOf(c[1], c[2], 4 * nPatch)[1]]
                                 [RootOf(c[1], c[2], 4 * nPatch)[2]])
           /\ \A m \in Corners :
                ~IsBackRef(node_con[m[1]][m[2]]) =>
                  ListedAt(c, m)
                    = IF m = RootOf(c[1], c[2], 4 * nPatch) THEN 1 ELSE 0
      ELSE \A k \in 1 .. Len(node_con[c[1]][c[2]]) :
             /\ node_con[c[1]][c[2]][k] \in Corners
             /\ IsBackRef(node_con[node_con[c[1]][c[2]][k][1]]
                                  [node_con[c[1]][c[2]][k][2]])
             /\ RootOf(node_con[c[1]][c[2]][k][1],
                       node_con[c[1]][c[2]][k][2], 4 * nPatch) = c

\* the squared distance of sample s2a of the first tested edge and sample
\* s2b of the second one is below the square of the tolerance
Near(s2a, s2b) ==
  /\ arg.edge_tol > 0
  /\ _e_dist_sq(arg.surf1[arg.i][s2a + 1], arg.surf2[arg.j][s2b + 1])
       < arg.edge_tol * arg.edge_tol

\* the end points match in the same sense, in the reversed sense
SameSense == Near(0, 0) /\ Near(2, 2)
RevSense == Near(0, 2) /\ Near(2, 0)

\* C21: _test_edge reports coincidence exactly when the midpoints are
\* nearer than tol and the end points match in the same or in the reversed
\* sense (strict <); the direction is +1 whenever the same-sense end points
\* match, also when the reversed ones match too, and -1 only when just the
\* reversed-sense end points match.
C21_TestEdge ==
  ret # <<>> =>
    /\ ret.fwd[1] = (Near(1, 1) /\ (SameSense \/ RevSense))
    /\ SameSense => ret.fwd[2] = 1
    /\ ret.fwd[2] = -1 <=> (RevSense /\ ~SameSense)

\* _test_edge has found coincident two edges whose end points match in
\* both senses
C21_Reached ==
  /\ ret # <<>>
  /\ SameSense /\ RevSense
  /\ ret.fwd = <<TRUE, 1>>

\* the driving groups of the table, and the first record of group g
GroupIds == {con[k].dg : k \in 1 .. Len(con)}
FirstOf(g) ==
  CHOOSE k \in 1 .. Len(con) :
    con[k].dg = g /\ \A m \in 1 .. (k - 1) : con[m].dg # g

\* C22: the driving groups that calcEdgeConnectivity assigns are exactly
\* 0 .. G-1 without a gap, and in table order the first record of group g
\* comes before the first record of group g+1.
C22_GroupsInOrder ==
  (last.op = "calc" /\ last.st # "quit") =>
    /\ GroupIds = 0 .. (Cardinality(GroupIds) - 1)
    /\ \A g \in GroupIds :
         (g + 1) \in GroupIds => FirstOf(g) < FirstOf(g + 1)

\* C23: in every STITCH record that calcEdgeConnectivity produces the
\* first reference is on the lower patch (f1 < f2), and after
\* _setEdgeConnectivity its first edge is flagged master and its second
\* edge slave, the edges of SYMMETRY records being masters: each STITCH
\* record has exactly one master edge.
C23_OneMasterEdge ==
  CalcDone =>
    \A k \in 1 .. Len(con) :
      /\ master_edge[con[k].f1][con[k].e1] = TRUE
      /\ con[k].type = 1 =>
           /\ con[k].f1 < con[k].f2
           /\ master_edge[con[k].f2][con[k].e2] = FALSE

\* C24: when _setEdgeConnectivity is applied again to the table that it
\* was applied to before (a confirmed recompute or a reload that gives the
\* same table), it runs to its end and leaves the corner flags, the
\* back-references and the slave lists as they were.
C24_Repeatable ==
  [][(/\ NodesSet
      /\ last'.op \in {"calc", "read"} /\ last'.st # "quit"
      /\ con' = con)
       => (last'.st = "ok" /\ UNCHANGED <<master_node, node_con>>)]_vars

\* C25: the resolution of the master corners in _setEdgeConnectivity runs
\* to its end for every connection table: following the back-references
\* from a corner reaches a corner without back-reference after finitely
\* many steps, also for loaded tables whose STITCH records name each
\* other's patches in both orders.
C25_ResolutionEnds ==
  last.op \in {"calc", "read"} => last.st # "hang"

\* control point ij lies on edge e of a patch
OnEdge(ij, e) == \E k \in 0 .. (NCtl - 1) : EdgePoint(e, k) = ij

\* C26: stitchEdges changes only control points on edges that are the
\* second reference (f2, e2) of a STITCH record: patches that are never a
\* second reference, all interior control points and the connection table
\* stay as they are.
C26_StitchFrame ==
  [][last'.op = "stitch" =>
       /\ UNCHANGED <<con, conIsNone>>
       /\ \A p \in Patches, ij \in CtlIdx \X CtlIdx :
            coef'[p][ij] # coef[p][ij] =>
              \E k \in 1 .. Len(con) :
                /\ con[k].type = 1
                /\ Py(con[k].f2, nPatch) = p
                /\ OnEdge(ij, con[k].e2)]_vars

\* stitchEdges has changed control points of patch 1 on a table with a
\* STITCH record, patch 0 being no second reference
C26_Reached ==
  /\ last.op = "stitch" /\ last.st = "ok"
  /\ nPatch >= 2
  /\ \A k \in 1 .. Len(con) : con[k].type = 1 => con[k].f2 # 0
  /\ coef[1] # FreshCoef(nPatch)[1]
  /\ coef[0] = FreshCoef(nPatch)[0]

(***************************************************************************)
(* The assembly of fitSurfaces                                             *)
(***************************************************************************)
FitDone == last.op = "fit" /\ last.st = "ok"

\* the points of all patches, and the loop order: patch, then v, then u
AllPoints == Patches \X (CtlIdx \X CtlIdx)
LoopBefore(x, y) ==
  \/ x[1] < y[1]
  \/ x[1] = y[1] /\ x[2][2] < y[2][2]
  \/ x[1] = y[1] /\ x[2][2] = y[2][2] /\ x[2][1] < y[2][1]

\* the number of driving points the loops meet before point x
ColumnOf(x) ==
  Cardinality({y \in AllPoints : IsDriving(y[1], y[2]) /\ LoopBefore(y, x)})

\* the calls of one kind
CallsOf(kind) == {k \in 1 .. Len(last.calls) : last.calls[k].vec[1] = kind}

\* the driving points inside a master edge that is connected to another
\* patch, with that edge
EdgeDrivers ==
  {xe \in AllPoints \X Edges4 :
     /\ IsDriving(xe[1][1], xe[1][2])
     /\ \E k \in 1 .. (NCtl - 2) : EdgePoint(xe[2], k) = xe[1][2]
     /\ edge_con[xe[1][1]][xe[2]] # <<>>}

\* C27: only driving control points get a column, each a distinct one,
\* numbered consecutively in patch, then v, then u order; the derivative
\* along a master edge goes into the row block of the slave patch, at offset
\* M[slave patch] of the same column, exactly when the edge is a STITCH edge
C27_Columns ==
  FitDone =>
    /\ \A k \in CallsOf("_calcCtlDeriv") :
         LET c == last.calls[k]
             x == <<c.vec[2], <<c.vec[3], c.vec[4]>>>>
         IN /\ IsDriving(x[1], x[2])
            /\ c.j = ColumnOf(x)
            /\ c.i = last.M[x[1] + 1]
    /\ \A x \in AllPoints :
         IsDriving(x[1], x[2]) =>
           Cardinality({k \in CallsOf("_calcCtlDeriv") :
                          last.calls[k].vec = <<"_calcCtlDeriv", x[1], x[2][1], x[2][2]>>}) = 1
    /\ {last.calls[k].j : k \in 1 .. Len(last.calls)} =
         0 .. (Cardinality({x \in AllPoints : IsDriving(x[1], x[2])}) - 1)
    /\ \A xe \in EdgeDrivers :
         LET p == xe[1][1]
             e == xe[2]
             hits == {k \in CallsOf("_calcCtlDerivEdge") :
                        /\ last.calls[k].j = ColumnOf(xe[1])
                        /\ last.calls[k].vec[2] = edge_con[p][e][1]
                        /\ last.calls[k].vec[3] = edge_con[p][e][2]
                        /\ last.calls[k].i = last.M[edge_con[p][e][1] + 1]}
         IN IF edge_type[p][e] = 1 THEN Cardinality(hits) = 1 ELSE hits = {}
    /\ \A k \in CallsOf("_calcCtlDerivEdge") :
         \E xe \in EdgeDrivers :
           /\ edge_type[xe[1][1]][xe[2]] = 1
           /\ last.calls[k].j = ColumnOf(xe[1])
           /\ last.calls[k].vec[2] = edge_con[xe[1][1]][xe[2]][1]
           /\ last.calls[k].i = last.M[last.calls[k].vec[2] + 1]

\* a fit with a column for a point of a STITCH master edge and one for a
\* point of a SYMMETRY edge
C27_Reached ==
  /\ FitDone
  /\ CallsOf("_calcCtlDerivEdge") # {}
  /\ \E xe \in EdgeDrivers : edge_type[xe[1][1]][xe[2]] = 0
  /\ \E x \in AllPoints : ~IsDriving(x[1], x[2])
  /\ last.M[2] > 0

\* the driving corners that have slave corners, with one of them:
\* <<patch, corner, slave patch, slave corner>>
CornerSlaves ==
  {x \in Patches \X Edges4 \X Patches \X Edges4 :
     /\ master_node[x[1]][x[2]] # "False"
     /\ \E k \in 1 .. Len(node_con[x[1]][x[2]]) :
          node_con[x[1]][x[2]][k] = <<x[3], x[4]>>}

\* C28: the column of a driving control point on a master corner contains
\* one contribution for every slave corner resolved to it: each of them is
\* in the row block of its patch after all the writes
C28_CornerContributions ==
  FitDone =>
    \A x \in CornerSlaves :
      \A d \in 0 .. (last.M[x[3] + 2] - last.M[x[3] + 1] - 1) :
        LET rc == <<last.M[x[3] + 1] + d, ColumnOf(<<x[1], CornerPoint(x[2])>>)>>
        IN /\ rc \in DOMAIN last.J
           /\ <<<<"_calcCtlDerivNode", x[3], x[4]>>, d>> \in last.J[rc]

\* C29: M and N have length nPatch+1, start at 0, grow by the number of
\* free samples and of free control points of each patch, and each of the
\* three right-hand sides is a vector of length M[nPatch] that holds the
\* cropped data of patch p from row M[p] on
C29_Offsets ==
  FitDone =>
    /\ Len(last.M) = nPatch + 1 /\ Len(last.N) = nPatch + 1
    /\ last.M[1] = 0 /\ last.N[1] = 0
    /\ \A p \in Patches :
         /\ last.M[p + 2] - last.M[p + 1] = last.free[p + 1][1] * last.free[p + 1][2]
         /\ last.N[p + 2] - last.N[p + 1] = last.free[p + 1][3] * last.free[p + 1][4]
         /\ last.M[p + 1] <= last.M[p + 2]
         /\ last.N[p + 1] <= last.N[p + 2]
    /\ Len(last.RHS) = 3
    /\ \A idim \in 1 .. 3 :
         /\ Len(last.RHS[idim]) = last.M[nPatch + 1]
         /\ \A p \in Patches :
              \A d \in 0 .. (last.free[p + 1][1] * last.free[p + 1][2] - 1) :
                last.RHS[idim][last.M[p + 1] + d + 1] = <<"X", p, idim - 1, d>>

\* a fit of two patches with different numbers of free samples
C29_Reached ==
  /\ FitDone
  /\ nPatch = 2
  /\ last.M = <<0, 2, 3>>
  /\ last.N = <<0, 6, 15>>
  /\ last.RHS[3][3] = <<"X", 1, 2, 0>>

(***************************************************************************)
(* setMonotonic                                                            *)
(***************************************************************************)
\* the last index the call covers: stop, and the last value for stop = -1
LastIndex == IF arg.stop = -1 THEN arg.ndv - 1 ELSE arg.stop

\* start and stop are indices into the ndv values, in order, and the
\* constraint applies to the configuration of the design variable
MonoCase ==
  /\ ConfigApplies(arg.config, arg.dvconfig) = "yes"
  /\ 0 <= arg.start
  /\ arg.start <= LastIndex
  /\ LastIndex <= arg.ndv - 1

\* C30: start and stop are inclusive indices into the ndv values, stop = -1
\* standing for the last one: for 0 <= start <= stop the Jacobian has
\* stop - start rows of ndv columns, row i with +slope in column start+i,
\* -slope in column start+i+1 and 0 elsewhere, and ncon grows by the number
\* of rows
C30_Monotonic ==
  (ret # <<>> /\ MonoCase) =>
    /\ ret.st = "ok" /\ ret.built
    /\ Len(ret.jac) = LastIndex - arg.start
    /\ \A i \in 0 .. (LastIndex - arg.start - 1) :
         /\ Len(ret.jac[i + 1]) = arg.ndv
         /\ \A c \in 0 .. (arg.ndv - 1) :
              ret.jac[i + 1][c + 1] =
                IF c = arg.start + i THEN arg.slope
                ELSE IF c = arg.start + i + 1 THEN -arg.slope
                ELSE 0
    /\ ret.ncon = arg.ncon + (LastIndex - arg.start)

\* a call with start = 1 and stop = 3 on four values
C30_Reached ==
  /\ ret # <<>>
  /\ MonoCase
  /\ arg.ndv = 4 /\ arg.start = 1 /\ arg.stop = 3 /\ arg.slope = 2 /\ arg.ncon = 1
  /\ ret.jac = << <<0, 2, -2, 0>>, <<0, 0, 2, -2>> >>
  /\ ret.ncon = 3
====
